---- MODULE Spec2Model ----
(***************************************************************************)
(* A model of the Optocad front end: the tokenizer (tokenizer.py), the     *)
(* packrat parser (parser.py), the containers they build (containers.py)   *)
(* and the error they raise (exceptions.py).                               *)
(*                                                                         *)
(* A Python str is a sequence of one-character strings.  A Python value    *)
(* whose dynamic type matters carries it in a field `ty`.  A list is a     *)
(* sequence, a dict is a sequence of [k, v] entries in insertion order.    *)
(***************************************************************************)
EXTENDS Integers, Sequences, FiniteSets, TLC

VARIABLES
    fobj,           \* the input handed to the call: [text, named]
    tokenizer,      \* an OptocadTokenizer driven on its own, with its generator
    emitted,        \* the tokens that generator has yielded, in order
    raised,         \* the errors that generator has raised, in order
    stopped,        \* that generator has signalled StopIteration
    parser,         \* an OptocadParser: its fields
    outcome,        \* how the call on the parser ended: returned or raised
    calls           \* the number of calls made on the parser's methods

vars == <<fobj, tokenizer, emitted, raised, stopped, parser, outcome, calls>>

----------------------------------------------------------------------------
(* Bounds of the model. *)

\* The longest input of the tokenizer driven on its own.
MaxChars == 4

\* The longest input of the parser drawn from all strings over ShortChars.
MaxShort == 4

\* The most parameters of the one-line scripts.
MaxParams == 3

\* The most lines of the scripts of simple lines.
MaxLines == 3

\* The most calls made one after another on the methods of one parser.
MaxCalls == 2

\* The most parses made one after another with one parser.
MaxParses == 2

\* The attempts after which a seed growing that does not stop by itself is
\* cut off.
MaxAttempts == 4

----------------------------------------------------------------------------
(* Python values. *)

PyNone == [ty |-> "NoneType"]

PyStr(s) == [ty |-> "str", s |-> s]

PyInt(n) == [ty |-> "int", n |-> n]

Last(s) == s[Len(s)]

RECURSIVE Count(_, _)
Count(s, c) ==
    IF s = <<>> THEN 0
    ELSE (IF Head(s) = c THEN 1 ELSE 0) + Count(Tail(s), c)

----------------------------------------------------------------------------
(* tokens.py: the token patterns. *)

Digits == {"0", "1", "2", "3", "4", "5", "6", "7", "8", "9"}

Letters ==
    {"a", "b", "c", "d", "e", "f", "g", "h", "i", "j", "k", "l", "m",
     "n", "o", "p", "q", "r", "s", "t", "u", "v", "w", "x", "y", "z", "_"}

LITERALS ==
    [c \in {",", "=", "+", "-", "*", "/", "(", ")", "[", "]", "{", "}"} |->
        CASE c = "," -> "COMMA"
          [] c = "=" -> "EQUALS"
          [] c = "+" -> "PLUS"
          [] c = "-" -> "MINUS"
          [] c = "*" -> "TIMES"
          [] c = "/" -> "DIVIDE"
          [] c = "(" -> "LPAREN"
          [] c = ")" -> "RPAREN"
          [] c = "[" -> "LBRACKET"
          [] c = "]" -> "RBRACKET"
          [] c = "{" -> "LBRACE"
          [] c = "}" -> "RBRACE"]

\* The 0-based end of the longest run of characters of S in `line` from the
\* 0-based position i.
RECURSIVE RunEnd(_, _, _)
RunEnd(line, i, S) ==
    IF i < Len(line) /\ line[i + 1] \in S THEN RunEnd(line, i + 1, S) ELSE i

\* The 0-based position of the first character of Stop in `line` at or after
\* position i, or the length of the line.
RECURSIVE UntilEnd(_, _, _)
UntilEnd(line, i, Stop) ==
    IF i < Len(line) /\ line[i + 1] \notin Stop THEN UntilEnd(line, i + 1, Stop) ELSE i

At(line, i) == IF i < Len(line) THEN line[i + 1] ELSE "<eol>"

NoMatch == [matched |-> FALSE, type |-> "ERROR", end |-> 0]

Matched(type, end) == [matched |-> TRUE, type |-> type, end |-> end]

\* NUMBER: an integer without leading zeros, with an optional fraction, or a
\* fraction alone, or "inf".
NumberEnd(line, i) ==
    LET c == At(line, i)
        intEnd == IF c = "0" THEN i + 1 ELSE RunEnd(line, i, Digits)
    IN  IF c \in Digits
        THEN IF At(line, intEnd) = "."
             THEN RunEnd(line, intEnd + 1, Digits)
             ELSE intEnd
        ELSE IF c = "." /\ At(line, i + 1) \in Digits
        THEN RunEnd(line, i + 1, Digits)
        ELSE IF c = "i" /\ At(line, i + 1) = "n" /\ At(line, i + 2) = "f"
        THEN i + 3
        ELSE i

StringEnd(line, i) ==
    LET close == UntilEnd(line, i + 1, {"'", "\n"})
    IN  IF At(line, i) = "'" /\ At(line, close) = "'" THEN close + 1 ELSE i

\* self._matcher.match(line, self._index): the rules in order of precedence.
Match(line, i) ==
    LET c == At(line, i) IN
    IF c = "\n" THEN Matched("NEWLINE", i + 1)
    ELSE IF c = "#"
    THEN Matched("COMMENT", UntilEnd(line, i, {"\n"}))
    ELSE IF NumberEnd(line, i) > i THEN Matched("NUMBER", NumberEnd(line, i))
    ELSE IF StringEnd(line, i) > i THEN Matched("STRING", StringEnd(line, i))
    ELSE IF c \in Letters
    THEN Matched("NAME", RunEnd(line, i, Letters \cup Digits \cup {"."}))
    ELSE IF c = "*" /\ At(line, i + 1) = "*" THEN Matched("POWER", i + 2)
    ELSE IF c = "/" /\ At(line, i + 1) = "/" THEN Matched("FLOORDIVIDE", i + 2)
    ELSE IF c \in DOMAIN LITERALS THEN Matched(LITERALS[c], i + 1)
    ELSE NoMatch

----------------------------------------------------------------------------
(* tokenizer.py *)

TAB_SIZE == 4

IGNORE == {" ", "\t"}

Token(lineno, start_index, stop_index, type, value) ==
    [lineno |-> lineno, start_index |-> start_index,
     stop_index |-> stop_index, type |-> type, value |-> value]

\* exceptions.py: OptocadSyntaxError(message, filename, lineno, index, text,
\* end_lineno, end_index).
OptocadSyntaxError(message, lineno, index, text, end_lineno, end_index) ==
    [exc |-> "OptocadSyntaxError", msg |-> message, lineno |-> lineno,
     index |-> index, text |-> text, end_lineno |-> end_lineno,
     end_index |-> end_index]

raise_error(error_msg, token) ==
    OptocadSyntaxError(error_msg, token.lineno, token.start_index,
                       token.value, token.lineno, token.stop_index)

raise_lexing_error(token) ==
    raise_error("illegal character '" \o token.value.s[1] \o "'", token)

\* OptocadTokenizer() with the generator tokenize_file(fobj) created on it and
\* not yet started; `unread` is what fobj.readline() has not returned yet.
NewTokenizer(text) ==
    [done |-> FALSE, script |-> <<>>, nesting |-> <<>>, lineno |-> 1,
     index |-> 0, taboffset |-> 0, previous_line |-> <<>>, line |-> <<>>,
     unread |-> text, pc |-> "created"]

\* fobj.readline(): up to and including the first line feed.
ReadLine(unread) ==
    LET e == UntilEnd(unread, 0, {"\n"})
    IN  SubSeq(unread, 1, IF e < Len(unread) THEN e + 1 ELSE e)

Yield(t, token) == [t |-> t, kind |-> "yield", token |-> token]

Raise(t, err) == [t |-> [t EXCEPT !.pc = "raised"], kind |-> "raise", err |-> err]

Stop(t) == [t |-> t, kind |-> "stop"]

\* on_RBRACKET and on_RPAREN popping without asserting what was popped.
on_closer_unchecked(t, token, opener, msg) ==
    IF t.nesting = <<>>
    THEN [t |-> t, raised |-> TRUE, err |-> raise_error(msg, token)]
    ELSE [t |-> [t EXCEPT !.nesting = SubSeq(@, 1, Len(@) - 1)], raised |-> FALSE]

\* on_NEWLINE, on_LBRACKET, on_RBRACKET, on_LPAREN, on_RPAREN: the tokenizer
\* after the callback and, when it raises, the error.
on_closer(t, token, opener, msg) ==
    IF t.nesting = <<>>
    THEN [t |-> t, raised |-> TRUE, err |-> raise_error(msg, token)]
    ELSE LET popped == t.nesting[Len(t.nesting)]
             t1 == [t EXCEPT !.nesting = SubSeq(@, 1, Len(@) - 1)]
         IN  IF popped.value = PyStr(<<opener>>)
             THEN [t |-> t1, raised |-> FALSE]
             ELSE [t |-> t1, raised |-> TRUE, err |-> raise_error(msg, token)]

on_RBRACKET(t, token) == on_closer(t, token, "[", "extraneous ']'")

on_RPAREN(t, token) == on_closer(t, token, "(", "extraneous ')'")

on_opener(t, token) ==
    [t |-> [t EXCEPT !.nesting = Append(@, token)], raised |-> FALSE]

on_NEWLINE(t, token) ==
    [t |-> [t EXCEPT !.lineno = @ + Len(token.value.s)], raised |-> FALSE]

token_callback(t, token) ==
    CASE token.type = "NEWLINE" -> on_NEWLINE(t, token)
      [] token.type \in {"LBRACKET", "LPAREN"} -> on_opener(t, token)
      [] token.type = "RBRACKET" -> on_RBRACKET(t, token)
      [] token.type = "RPAREN" -> on_RPAREN(t, token)
      [] OTHER -> [t |-> t, raised |-> FALSE]

\* The code after the loop adding the implicit NEWLINE whatever the last line
\* ends in.
AfterLoop_always_newline(t) ==
    IF t.nesting # <<>>
    THEN LET token == t.nesting[1]
         IN  Raise(t, raise_error("unclosed '" \o token.value.s[1] \o "'", token))
    ELSE Yield([t EXCEPT !.pc = "implicit_newline"],
               Token(t.lineno, t.index + 1, t.index + 1, "NEWLINE", PyNone))

\* The code after the `while True:` loop.
AfterLoop(t) ==
    IF t.nesting # <<>>
    THEN LET token == t.nesting[1]
         IN  Raise(t, raise_error("unclosed '" \o token.value.s[1] \o "'", token))
    ELSE IF t.previous_line = <<>>
            \/ t.previous_line[Len(t.previous_line)] \notin {"\r", "\n"}
    THEN Yield([t EXCEPT !.pc = "implicit_newline"],
               Token(t.lineno, t.index + 1, t.index + 1, "NEWLINE", PyNone))
    ELSE Yield([t EXCEPT !.pc = "endmarker"],
               Token(t.lineno, 1, 1, "ENDMARKER", PyNone))

\* The `while True:` loop, from the head of its inner loop to the next yield,
\* raise or the end of the input.
RECURSIVE Scan(_)
Scan(t) ==
    IF t.index < Len(t.line)
    THEN IF t.line[t.index + 1] \in IGNORE
         THEN Scan([t EXCEPT !.index = @ + 1])
         ELSE LET matches == Match(t.line, t.index) IN
              IF matches.matched
              THEN LET value == SubSeq(t.line, t.index + 1, matches.end)
                       start_index == t.index + t.taboffset + 1
                       taboffset == t.taboffset + (TAB_SIZE - 1) * Count(value, "\t")
                       stop_index == matches.end + taboffset + 1
                       token == Token(t.lineno, start_index, stop_index,
                                      matches.type, PyStr(value))
                       cb == token_callback([t EXCEPT !.taboffset = taboffset], token)
                   IN  IF cb.raised
                       THEN Raise(cb.t, cb.err)
                       ELSE Yield([cb.t EXCEPT !.index = matches.end, !.pc = "line"],
                                  token)
              ELSE Raise(t, raise_lexing_error(
                       Token(t.lineno, t.index + 1, Len(t.line) + 1, "ERROR",
                             PyStr(SubSeq(t.line, t.index + 1, Len(t.line))))))
    ELSE LET line == ReadLine(t.unread) IN
         IF line = <<>>
         THEN AfterLoop([t EXCEPT !.previous_line = t.line, !.line = line])
         ELSE Scan([t EXCEPT !.previous_line = t.line, !.line = line,
                             !.unread = SubSeq(@, Len(line) + 1, Len(@)),
                             !.script = Append(@, line),
                             !.index = 0, !.taboffset = 0])

\* next() on the generator of tokenize_file.
GenNext(t) ==
    CASE t.pc = "created" -> Scan([t EXCEPT !.pc = "line"])
      [] t.pc = "line" -> Scan(t)
      [] t.pc = "implicit_newline" ->
            Yield([t EXCEPT !.lineno = @ + 1, !.index = 0, !.pc = "endmarker"],
                  Token(t.lineno + 1, 1, 1, "ENDMARKER", PyNone))
      [] t.pc = "endmarker" -> Stop([t EXCEPT !.done = TRUE, !.pc = "finished"])
      [] OTHER -> Stop(t)

----------------------------------------------------------------------------
(* containers.py *)

OptocadCommand(directive, args, kwargs) ==
    [ty |-> "OptocadCommand", directive |-> directive, args |-> args,
     kwargs |-> kwargs, secondary_surfaces |-> <<>>]

OptocadSecondarySurfaceCommand(args, kwargs) ==
    [ty |-> "OptocadSecondarySurfaceCommand", args |-> args, kwargs |-> kwargs]

OptocadUnaryExpression(operator, argument) ==
    [ty |-> "OptocadUnaryExpression", operator |-> operator, argument |-> argument]

OptocadBinaryExpression(operator, lhs, rhs) ==
    [ty |-> "OptocadBinaryExpression", operator |-> operator, lhs |-> lhs,
     rhs |-> rhs]

\* {**d1, **d2}: the keys of d1 keep their places and take d2's value when d2
\* has them; the keys only d2 has follow in d2's order.
DictKeys(d) == {d[i].k : i \in 1..Len(d)}

DictGet(d, k) == d[CHOOSE i \in 1..Len(d) : d[i].k = k].v

RECURSIVE DictNew(_, _)
DictNew(d2, keys) ==
    IF d2 = <<>> THEN <<>>
    ELSE IF Head(d2).k \in keys THEN DictNew(Tail(d2), keys)
    ELSE <<Head(d2)>> \o DictNew(Tail(d2), keys)

DictMerge(d1, d2) ==
    [i \in 1..Len(d1) |->
        IF d1[i].k \in DictKeys(d2)
        THEN [k |-> d1[i].k, v |-> DictGet(d2, d1[i].k)]
        ELSE d1[i]]
    \o DictNew(d2, DictKeys(d1))

----------------------------------------------------------------------------
(* parser.py: the parser object and its primitives.                        *)
(*                                                                         *)
(* The parser is a record p of the object's fields: tokens, pos (0-based), *)
(* memos, optocad_script, tk (its tokenizer's token stream), exc, the      *)
(* exception in flight, and skip.  A method returns [p, ok, v]: the object *)
(* after the call, whether the result is not None, and the result.         *)
(*                                                                         *)
(* An alternative of a production is a chain `a is not None and b is not   *)
(* None and ...`, each element starting from the object its predecessor    *)
(* left.  skip holds while the rest of such a chain is passed over: from   *)
(* the element that was None until the self.reset(pos) that ends the       *)
(* alternative, and for good once an exception is in flight.  A method     *)
(* called under skip is not evaluated: it returns None at once and leaves  *)
(* the object alone.  So the last element of a chain is not None exactly   *)
(* when every element is.                                                  *)

EMPTY == [ty |-> "__empty_cls"]

NoExc == [exc |-> "none"]

AttributeError(what) == [exc |-> "AttributeError", msg |-> what]

TypeError(what) == [exc |-> "TypeError", msg |-> what]

StopIteration == [exc |-> "StopIteration"]

Raised(p) == p.exc # NoExc

Ok(p, v) == [p |-> p, ok |-> TRUE, v |-> v]

None(p) == [p |-> [p EXCEPT !.skip = TRUE], ok |-> FALSE, v |-> PyNone]

Throw(p, e) == None([p EXCEPT !.exc = e])

\* Control going on after a None: the `else` of a conditional, the end of a
\* `while`.
Resume(p) == IF Raised(p) THEN p ELSE [p EXCEPT !.skip = FALSE]

mark(p) == p.pos

reset(p, pos) == IF Raised(p) THEN p ELSE [p EXCEPT !.pos = pos, !.skip = FALSE]

\* self._token_stream = self._tokenizer.tokenize_file(fobj): the generator,
\* as the results of its successive next() calls up to the one that raises or
\* finds it exhausted, the number of calls made so far, and (a record kept
\* for the model only) the cursor position at which each call was made.
RECURSIVE Drain(_)
Drain(t) ==
    LET g == GenNext(t)
    IN  IF g.kind = "yield" THEN <<g>> \o Drain(g.t) ELSE <<g>>

TokenStream(text) == [runs |-> Drain(NewTokenizer(text)), n |-> 0, asked |-> <<>>]

\* getattr(self, name)(*args): the call of the method `name`, decorated as
\* the class decorates it.  X_method below is the body of `def X`.
RECURSIVE getattr(_, _, _)

peek_token(p) == getattr(p, "peek_token", <<>>)

get_token(p) == getattr(p, "get_token", <<>>)

positive_lookahead(p, token_type) == getattr(p, "positive_lookahead", <<token_type>>)

negative_lookahead(p, token_type) == getattr(p, "negative_lookahead", <<token_type>>)

maybe_token(p, token_type) == getattr(p, "maybe_token", <<token_type>>)

maybe_trailing_comma(p) == getattr(p, "maybe_trailing_comma", <<>>)

expect_token(p, arg) == getattr(p, "expect_token", <<arg>>)

\* result = getattr(self, production)()
expect_production(p, production) == getattr(p, production, <<>>)

loop_token(p, token, nonempty) == getattr(p, "loop_token", <<token, nonempty>>)

loop_production(p, production, nonempty) ==
    getattr(p, "loop_production", <<production, nonempty>>)

\* peek_token asking the lexer for a token at every call.
peek_token_always_asks(p) ==
    LET g == p.tk.runs[p.tk.n + 1]
        tk == [p.tk EXCEPT !.n = @ + 1, !.asked = Append(@, p.pos)]
    IN  CASE p.tk.n >= Len(p.tk.runs) -> Throw(p, StopIteration)
          [] g.kind = "yield" ->
               Ok([p EXCEPT !.tk = tk, !.tokens = Append(@, g.token)],
                  Append(p.tokens, g.token)[p.pos + 1])
          [] g.kind = "raise" -> Throw([p EXCEPT !.tk = tk], g.err)
          [] OTHER -> Throw([p EXCEPT !.tk = tk], StopIteration)

peek_token_method(p) ==
    LET g == p.tk.runs[p.tk.n + 1]
        tk == [p.tk EXCEPT !.n = @ + 1, !.asked = Append(@, p.pos)]
    IN  CASE p.pos # Len(p.tokens) -> Ok(p, p.tokens[p.pos + 1])
          [] p.tk.n >= Len(p.tk.runs) -> Throw(p, StopIteration)
          [] g.kind = "yield" ->
               Ok([p EXCEPT !.tk = tk, !.tokens = Append(@, g.token)], g.token)
          [] g.kind = "raise" -> Throw([p EXCEPT !.tk = tk], g.err)
          [] OTHER -> Throw([p EXCEPT !.tk = tk], StopIteration)

get_token_method(p) ==
    LET r == peek_token(p)
    IN  IF r.ok THEN Ok([r.p EXCEPT !.pos = @ + 1], r.v) ELSE r

\* The result is the lookahead's truth value.
positive_lookahead_method(p, token_type) ==
    LET pos == mark(p)
        r == peek_token(p)
    IN  IF r.ok THEN Ok(reset(r.p, pos), r.v.type = token_type) ELSE r

negative_lookahead_method(p, token_type) ==
    LET r == positive_lookahead(p, token_type)
    IN  IF r.ok THEN Ok(r.p, ~r.v) ELSE r

\* What a decorated method gives back from memos[key].
Replay(p, memo) ==
    IF memo.ok THEN Ok(reset(p, memo.endpos), memo.v)
    ELSE None(reset(p, memo.endpos))

\* memoize.py: the key of a call, (method, arguments, position).
MemoKey(p, name, args) == <<name, args, mark(p)>>

\* memoize.py: memos[key] = (result, end position).
Memo(r) == [ok |-> r.ok, v |-> r.v, endpos |-> mark(r.p)]

\* memoize.py, @memoize: the result and the end position of a call are kept
\* under its key and replayed.  A decorated method first looks its key up,
\* and where the key is missing stores what its body returns from p; an
\* exception stores nothing.  With p.replay off the decorator is out of
\* force: every call runs the body, and memos is a record of the calls only.
memoized(p, name, args) == p.replay /\ MemoKey(p, name, args) \in DOMAIN p.memos

Recall(p, name, args) == Replay(p, p.memos[MemoKey(p, name, args)])

memoize(p, name, args, r) ==
    IF Raised(r.p) THEN r
    ELSE [r EXCEPT !.p.memos = (MemoKey(p, name, args) :> Memo(r)) @@ @]

\* The undecorated method `name` of a @memoize_left_rec production.
RECURSIVE Method(_, _)

\* The seed growing going on for as long as the attempts return a result,
\* up to MaxAttempts attempts.
RECURSIVE GrowSeed_while_found(_, _, _)
GrowSeed_while_found(r, key, last) ==
    CASE r.ok /\ r.p.attempts[key] < MaxAttempts ->
           GrowSeed_while_found(
               Method(reset([r.p EXCEPT !.memos = (key :> Memo(r)) @@ @,
                                        !.attempts = (key :> @[key] + 1) @@ @], key[3]),
                      key[1]),
               key, Memo(r))
      [] Raised(r.p) -> r
      [] OTHER -> Replay(r.p, last)

\* memoize.py, @memoize_left_rec: the loop that grows the seed.  `last` is
\* the best result so far, which is also what memos holds under `key`; `r`
\* is the next attempt, made from the position of the key.  attempts counts,
\* for the model only, the calls of the undecorated method under each key.
RECURSIVE GrowSeed(_, _, _)
GrowSeed(r, key, last) ==
    CASE r.ok /\ mark(r.p) > last.endpos ->
           GrowSeed(Method(reset([r.p EXCEPT !.memos = (key :> Memo(r)) @@ @,
                                             !.attempts = (key :> @[key] + 1) @@ @],
                                 key[3]),
                           key[1]),
                    key, Memo(r))
      [] Raised(r.p) -> r
      [] OTHER -> Replay(r.p, last)

\* The seed of a left-recursive call: a failure at the position of the call.
Seed(p) == [ok |-> FALSE, v |-> PyNone, endpos |-> mark(p)]

memoize_left_rec(p, name) ==
    CASE MemoKey(p, name, <<>>) \in DOMAIN p.memos -> Recall(p, name, <<>>)
      [] OTHER ->
           GrowSeed(Method([p EXCEPT !.memos = (MemoKey(p, name, <<>>) :> Seed(p)) @@ @,
                                     !.attempts = (MemoKey(p, name, <<>>) :> 1) @@ @],
                           name),
                    MemoKey(p, name, <<>>), Seed(p))

\* expect_token with a decorator that hands back the stored token and leaves
\* the cursor where it is.
expect_token_replay_in_place(p, arg) ==
    LET token == peek_token(p)
    IN  CASE memoized(p, "expect_token", <<arg>>) ->
               LET memo == p.memos[MemoKey(p, "expect_token", <<arg>>)]
               IN  IF memo.ok THEN Ok(p, memo.v) ELSE None(p)
          [] (/\ token.ok
              /\ token.v.type = arg) -> memoize(p, "expect_token", <<arg>>, get_token(token.p))
          [] OTHER -> memoize(p, "expect_token", <<arg>>, None(token.p))

\* The body of expect_token, which is decorated with @memoize.
expect_token_method(p, arg) ==
    LET token == peek_token(p)
    IN  CASE memoized(p, "expect_token", <<arg>>) -> Recall(p, "expect_token", <<arg>>)
          [] (/\ token.ok
              /\ token.v.type = arg) -> memoize(p, "expect_token", <<arg>>, get_token(token.p))
          [] OTHER -> memoize(p, "expect_token", <<arg>>, None(token.p))


maybe_token_method(p, token_type) ==
    LET pos == mark(p)
        TOKEN == expect_token(p, token_type)
    IN  CASE TOKEN.ok -> TOKEN
          [] Raised(TOKEN.p) -> TOKEN
          [] OTHER -> Ok(reset(TOKEN.p, pos), EMPTY)

\* maybe_trailing_comma taking a comma whatever follows it.
maybe_trailing_comma_any(p) ==
    LET pos == mark(p)
        COMMA == expect_token(p, "COMMA")
    IN  CASE COMMA.ok -> COMMA
          [] Raised(COMMA.p) -> COMMA
          [] OTHER -> Ok(reset(COMMA.p, pos), EMPTY)

maybe_trailing_comma_method(p) ==
    LET pos == mark(p)
        COMMA == expect_token(p, "COMMA")
        newline == positive_lookahead(COMMA.p, "NEWLINE")
        comment == positive_lookahead(newline.p, "COMMENT")
    IN  CASE COMMA.ok /\ newline.ok /\ newline.v -> Ok(newline.p, COMMA.v)
          [] comment.ok /\ comment.v -> Ok(comment.p, COMMA.v)
          [] Raised(comment.p) -> comment
          [] OTHER -> Ok(reset(comment.p, pos), EMPTY)

\* The `while` of loop_token and loop_production: the nodes collected.
RECURSIVE LoopToken(_, _, _)
LoopToken(p, token, nodes) ==
    LET node == expect_token(p, token)
    IN  CASE node.ok -> LoopToken(node.p, token, Append(nodes, node.v))
          [] Raised(node.p) -> node
          [] OTHER -> Ok(Resume(node.p), nodes)

RECURSIVE LoopProduction(_, _, _)
LoopProduction(p, production, nodes) ==
    LET node == expect_production(p, production)
    IN  CASE node.ok -> LoopProduction(node.p, production, Append(nodes, node.v))
          [] Raised(node.p) -> node
          [] OTHER -> Ok(Resume(node.p), nodes)

loop_token_method(p, token, nonempty) ==
    LET pos == mark(p)
        r == LoopToken(p, token, <<>>)
    IN  CASE ~r.ok -> r
          [] Len(r.v) >= nonempty -> r
          [] OTHER -> None(reset(r.p, pos))

loop_production_method(p, production, nonempty) ==
    LET pos == mark(p)
        r == LoopProduction(p, production, <<>>)
    IN  CASE ~r.ok -> r
          [] Len(r.v) >= nonempty -> r
          [] OTHER -> None(reset(r.p, pos))

----------------------------------------------------------------------------
(* parser.py: the productions.  The elements of an alternative are named   *)
(* as the code names them (with a trailing _ or a number where the name is *)
(* taken); the first element of a later alternative starts from the object *)
(* the alternative before it left, reset to pos.                           *)

\* self.reset(pos), falling off the end of the method.
Fail(p, pos) == None(reset(p, pos))

\* start making sure that no token follows the ENDMARKER.
start_nothing_follows(p) ==
    LET pos == mark(p)
        lines == loop_production(p, "script_line", 0)
        end == expect_token(lines.p, "ENDMARKER")
        follows == negative_lookahead(end.p, "NAME")
    IN  IF lines.ok /\ end.ok /\ follows.ok /\ follows.v
        THEN Ok(follows.p, follows.p.optocad_script)
        ELSE Fail(follows.p, pos)

start_method(p) ==
    LET pos == mark(p)
        lines == loop_production(p, "script_line", 0)
        end == expect_token(lines.p, "ENDMARKER")
    IN  IF lines.ok /\ end.ok THEN Ok(end.p, end.p.optocad_script) ELSE Fail(end.p, pos)

\* script_line appending every command to the script, a secondary surface
\* command included.
script_line_no_isinstance(p) ==
    LET pos == mark(p)
        \* script_line -> command COMMENT? NEWLINE
        command_ == expect_production(p, "command")
        comment1 == maybe_token(command_.p, "COMMENT")
        newline1 == expect_token(comment1.p, "NEWLINE")
        q == newline1.p
        \* script_line -> COMMENT? NEWLINE
        comment2 == maybe_token(reset(q, pos), "COMMENT")
        newline2 == expect_token(comment2.p, "NEWLINE")
    IN  CASE memoized(p, "script_line", <<>>) -> Recall(p, "script_line", <<>>)
          [] (/\ command_.ok
              /\ comment1.ok
              /\ newline1.ok) ->
               memoize(p, "script_line", <<>>,
                       Ok([q EXCEPT !.optocad_script = Append(@, command_.v)], command_.v))
          [] (/\ comment2.ok
              /\ newline2.ok) -> memoize(p, "script_line", <<>>, Ok(newline2.p, EMPTY))
          [] OTHER -> memoize(p, "script_line", <<>>, Fail(newline2.p, pos))

\* script_line appending a secondary surface command to the first command of
\* the script.
script_line_first_command(p) ==
    LET pos == mark(p)
        \* script_line -> command COMMENT? NEWLINE
        command_ == expect_production(p, "command")
        comment1 == maybe_token(command_.p, "COMMENT")
        newline1 == expect_token(comment1.p, "NEWLINE")
        q == newline1.p
        \* script_line -> COMMENT? NEWLINE
        comment2 == maybe_token(reset(q, pos), "COMMENT")
        newline2 == expect_token(comment2.p, "NEWLINE")
    IN  CASE memoized(p, "script_line", <<>>) -> Recall(p, "script_line", <<>>)
          [] (/\ command_.ok
              /\ comment1.ok
              /\ newline1.ok) ->
               memoize(p, "script_line", <<>>,
                       CASE command_.v.ty # "OptocadSecondarySurfaceCommand" ->
                              Ok([q EXCEPT !.optocad_script = Append(@, command_.v)],
                                 command_.v)
                         [] q.optocad_script = <<>> -> Throw(q, AttributeError("lineno"))
                         [] OTHER ->
                              Ok([q EXCEPT !.optocad_script[1]
                                              .secondary_surfaces = Append(@, command_.v)],
                                 command_.v))
          [] (/\ comment2.ok
              /\ newline2.ok) -> memoize(p, "script_line", <<>>, Ok(newline2.p, EMPTY))
          [] OTHER -> memoize(p, "script_line", <<>>, Fail(newline2.p, pos))

script_line(p) ==
    LET pos == mark(p)
        \* script_line -> command COMMENT? NEWLINE
        command_ == expect_production(p, "command")
        comment1 == maybe_token(command_.p, "COMMENT")
        newline1 == expect_token(comment1.p, "NEWLINE")
        q == newline1.p
        \* script_line -> COMMENT? NEWLINE
        comment2 == maybe_token(reset(q, pos), "COMMENT")
        newline2 == expect_token(comment2.p, "NEWLINE")
    IN  CASE memoized(p, "script_line", <<>>) -> Recall(p, "script_line", <<>>)
          [] (/\ command_.ok
              /\ comment1.ok
              /\ newline1.ok) ->
               memoize(p, "script_line", <<>>,
                       CASE command_.v.ty # "OptocadSecondarySurfaceCommand" ->
                              Ok([q EXCEPT !.optocad_script = Append(@, command_.v)],
                                 command_.v)
                         \* except IndexError: the arguments of the raise are
                         \* evaluated first, and self._tokenizer has no lineno.
                         [] q.optocad_script = <<>> -> Throw(q, AttributeError("lineno"))
                         [] OTHER ->
                              Ok([q EXCEPT !.optocad_script[Len(q.optocad_script)]
                                              .secondary_surfaces = Append(@, command_.v)],
                                 command_.v))
          [] (/\ comment2.ok
              /\ newline2.ok) -> memoize(p, "script_line", <<>>, Ok(newline2.p, EMPTY))
          [] OTHER -> memoize(p, "script_line", <<>>, Fail(newline2.p, pos))

command(p) ==
    LET pos == mark(p)
        \* command -> NAME command_params
        COMMAND == expect_token(p, "NAME")
        command_params1 == expect_production(COMMAND.p, "command_params")
        \* command -> PLUS command_params
        PLUS == expect_token(reset(command_params1.p, pos), "PLUS")
        command_params2 == expect_production(PLUS.p, "command_params")
    IN  CASE memoized(p, "command", <<>>) -> Recall(p, "command", <<>>)
          [] (/\ COMMAND.ok
              /\ command_params1.ok) ->
               memoize(p, "command", <<>>,
                       Ok(command_params1.p,
                          OptocadCommand(COMMAND.v.value, command_params1.v.args,
                                         command_params1.v.kwargs)))
          [] (/\ PLUS.ok
              /\ command_params2.ok) ->
               memoize(p, "command", <<>>,
                       Ok(command_params2.p,
                          OptocadSecondarySurfaceCommand(command_params2.v.args,
                                                         command_params2.v.kwargs)))
          [] OTHER -> memoize(p, "command", <<>>, Fail(command_params2.p, pos))

\* The tuple command_params returns.
Params(args, kwargs) == [args |-> args, kwargs |-> kwargs]

\* command_params with one more alternative, the keyword arguments first.
command_params_keys_first(p) ==
    LET pos == mark(p)
        \* command_params -> command_value_list ',' command_key_value_list ','?
        command_value_list1 == expect_production(p, "command_value_list")
        COMMA == expect_token(command_value_list1.p, "COMMA")
        command_key_value_list1 == expect_production(COMMA.p, "command_key_value_list")
        trailing1 == maybe_trailing_comma(command_key_value_list1.p)
        \* command_params -> command_value_list ','?
        command_value_list2 == expect_production(reset(trailing1.p, pos),
                                                 "command_value_list")
        trailing2 == maybe_trailing_comma(command_value_list2.p)
        \* command_params -> command_key_value_list ',' command_value_list ','?
        command_key_value_list0 == expect_production(reset(trailing2.p, pos),
                                                     "command_key_value_list")
        COMMA0 == expect_token(command_key_value_list0.p, "COMMA")
        command_value_list0 == expect_production(COMMA0.p, "command_value_list")
        trailing0 == maybe_trailing_comma(command_value_list0.p)
        \* command_params -> command_key_value_list ','?
        command_key_value_list3 == expect_production(reset(trailing0.p, pos),
                                                     "command_key_value_list")
        trailing3 == maybe_trailing_comma(command_key_value_list3.p)
    IN  CASE memoized(p, "command_params", <<>>) -> Recall(p, "command_params", <<>>)
          [] (/\ command_value_list1.ok
              /\ COMMA.ok
              /\ command_key_value_list1.ok
              /\ trailing1.ok) ->
               memoize(p, "command_params", <<>>,
                       Ok(trailing1.p, Params(command_value_list1.v, command_key_value_list1.v)))
          [] (/\ command_value_list2.ok
              /\ trailing2.ok) -> memoize(p, "command_params", <<>>, Ok(trailing2.p, Params(command_value_list2.v, <<>>)))
          [] (/\ command_key_value_list0.ok
              /\ COMMA0.ok
              /\ command_value_list0.ok
              /\ trailing0.ok) ->
               memoize(p, "command_params", <<>>,
                       Ok(trailing0.p, Params(command_value_list0.v, command_key_value_list0.v)))
          [] (/\ command_key_value_list3.ok
              /\ trailing3.ok) -> memoize(p, "command_params", <<>>, Ok(trailing3.p, Params(<<>>, command_key_value_list3.v)))
          [] OTHER -> memoize(p, "command_params", <<>>, Fail(trailing3.p, pos))

command_params(p) ==
    LET pos == mark(p)
        \* command_params -> command_value_list ',' command_key_value_list ','?
        command_value_list1 == expect_production(p, "command_value_list")
        COMMA == expect_token(command_value_list1.p, "COMMA")
        command_key_value_list1 == expect_production(COMMA.p, "command_key_value_list")
        trailing1 == maybe_trailing_comma(command_key_value_list1.p)
        \* command_params -> command_value_list ','?
        command_value_list2 == expect_production(reset(trailing1.p, pos),
                                                 "command_value_list")
        trailing2 == maybe_trailing_comma(command_value_list2.p)
        \* command_params -> command_key_value_list ','?
        command_key_value_list3 == expect_production(reset(trailing2.p, pos),
                                                     "command_key_value_list")
        trailing3 == maybe_trailing_comma(command_key_value_list3.p)
    IN  CASE memoized(p, "command_params", <<>>) -> Recall(p, "command_params", <<>>)
          [] (/\ command_value_list1.ok
              /\ COMMA.ok
              /\ command_key_value_list1.ok
              /\ trailing1.ok) ->
               memoize(p, "command_params", <<>>,
                       Ok(trailing1.p, Params(command_value_list1.v, command_key_value_list1.v)))
          [] (/\ command_value_list2.ok
              /\ trailing2.ok) -> memoize(p, "command_params", <<>>, Ok(trailing2.p, Params(command_value_list2.v, <<>>)))
          [] (/\ command_key_value_list3.ok
              /\ trailing3.ok) -> memoize(p, "command_params", <<>>, Ok(trailing3.p, Params(<<>>, command_key_value_list3.v)))
          [] OTHER -> memoize(p, "command_params", <<>>, Fail(trailing3.p, pos))

command_value_list(p) ==
    LET pos == mark(p)
        \* command_value_list -> positional_value ',' command_value_list
        positional_value1 == expect_production(p, "positional_value")
        COMMA == expect_token(positional_value1.p, "COMMA")
        command_value_list_ == expect_production(COMMA.p, "command_value_list")
        \* command_value_list -> positional_value
        positional_value2 == expect_production(reset(command_value_list_.p, pos),
                                               "positional_value")
    IN  CASE memoized(p, "command_value_list", <<>>) -> Recall(p, "command_value_list", <<>>)
          [] (/\ positional_value1.ok
              /\ COMMA.ok
              /\ command_value_list_.ok) ->
               memoize(p, "command_value_list", <<>>,
                       Ok(command_value_list_.p,
                          <<positional_value1.v>> \o command_value_list_.v))
          [] positional_value2.ok ->
               memoize(p, "command_value_list", <<>>,
                       Ok(positional_value2.p, <<positional_value2.v>>))
          [] OTHER -> memoize(p, "command_value_list", <<>>, Fail(positional_value2.p, pos))

\* command_key_value_list returning {**list2, **list1}.
command_key_value_list_first_wins(p) ==
    LET pos == mark(p)
        \* command_key_value_list -> command_key_value_list ',' command_key_value_list
        command_key_value_list1 == expect_production(p, "command_key_value_list")
        commas == loop_token(command_key_value_list1.p, "COMMA", 1)
        command_key_value_list2 == expect_production(commas.p, "command_key_value_list")
        \* command_key_value_list -> key_value
        key_value_ == expect_production(reset(command_key_value_list2.p, pos), "key_value")
    IN  CASE (/\ command_key_value_list1.ok
              /\ commas.ok
              /\ command_key_value_list2.ok) ->
               Ok(command_key_value_list2.p,
                  DictMerge(command_key_value_list2.v, command_key_value_list1.v))
          [] key_value_.ok -> key_value_
          [] OTHER -> Fail(key_value_.p, pos)

command_key_value_list_method(p) ==
    LET pos == mark(p)
        \* command_key_value_list -> command_key_value_list ',' command_key_value_list
        command_key_value_list1 == expect_production(p, "command_key_value_list")
        commas == loop_token(command_key_value_list1.p, "COMMA", 1)
        command_key_value_list2 == expect_production(commas.p, "command_key_value_list")
        \* command_key_value_list -> key_value
        key_value_ == expect_production(reset(command_key_value_list2.p, pos), "key_value")
    IN  CASE (/\ command_key_value_list1.ok
              /\ commas.ok
              /\ command_key_value_list2.ok) ->
               Ok(command_key_value_list2.p,
                  DictMerge(command_key_value_list1.v, command_key_value_list2.v))
          [] key_value_.ok -> key_value_
          [] OTHER -> Fail(key_value_.p, pos)

\* Don't match values followed by '=', which are kwarg keys.
positional_value(p) ==
    LET pos == mark(p)
        value_ == expect_production(p, "value")
        not_key == negative_lookahead(value_.p, "EQUALS")
    IN  CASE memoized(p, "positional_value", <<>>) -> Recall(p, "positional_value", <<>>)
          [] (/\ value_.ok
              /\ not_key.ok
              /\ not_key.v) -> memoize(p, "positional_value", <<>>, Ok(not_key.p, value_.v))
          [] OTHER -> memoize(p, "positional_value", <<>>, Fail(not_key.p, pos))

value(p) ==
    LET pos == mark(p)
        \* value -> action
        action_ == expect_production(p, "action")
        \* value -> expr
        expr_ == expect_production(reset(action_.p, pos), "expr")
    IN  CASE memoized(p, "value", <<>>) -> Recall(p, "value", <<>>)
          [] action_.ok -> memoize(p, "value", <<>>, action_)
          [] expr_.ok -> memoize(p, "value", <<>>, expr_)
          [] OTHER -> memoize(p, "value", <<>>, Fail(expr_.p, pos))

\* key_value returning None from where its last alternative stopped.
key_value_no_reset(p) ==
    LET pos == mark(p)
        \* key_value -> NAME '=' value
        NAME1 == expect_token(p, "NAME")
        EQUALS1 == expect_token(NAME1.p, "EQUALS")
        value1 == expect_production(EQUALS1.p, "value")
        \* NAME '=' with no value
        NAME2 == expect_token(reset(value1.p, pos), "NAME")
        EQUALS2 == expect_token(NAME2.p, "EQUALS")
        value2 == expect_production(EQUALS2.p, "value")
    IN  CASE memoized(p, "key_value", <<>>) -> Recall(p, "key_value", <<>>)
          [] (/\ NAME1.ok
              /\ EQUALS1.ok
              /\ value1.ok) ->
               memoize(p, "key_value", <<>>,
                       Ok(value1.p, <<[k |-> NAME1.v.value, v |-> value1.v]>>))
          \* The arguments of the raise are evaluated first, and
          \* self._tokenizer has no attribute lineno.
          [] NAME2.ok /\ EQUALS2.ok /\ ~value2.ok /\ ~Raised(value2.p) ->
               memoize(p, "key_value", <<>>,
                       Throw(value2.p, AttributeError("lineno")))
          [] OTHER -> memoize(p, "key_value", <<>>, None(value2.p))

key_value(p) ==
    LET pos == mark(p)
        \* key_value -> NAME '=' value
        NAME1 == expect_token(p, "NAME")
        EQUALS1 == expect_token(NAME1.p, "EQUALS")
        value1 == expect_production(EQUALS1.p, "value")
        \* NAME '=' with no value
        NAME2 == expect_token(reset(value1.p, pos), "NAME")
        EQUALS2 == expect_token(NAME2.p, "EQUALS")
        value2 == expect_production(EQUALS2.p, "value")
    IN  CASE memoized(p, "key_value", <<>>) -> Recall(p, "key_value", <<>>)
          [] (/\ NAME1.ok
              /\ EQUALS1.ok
              /\ value1.ok) ->
               memoize(p, "key_value", <<>>,
                       Ok(value1.p, <<[k |-> NAME1.v.value, v |-> value1.v]>>))
          \* The arguments of the raise are evaluated first, and
          \* self._tokenizer has no attribute lineno.
          [] NAME2.ok /\ EQUALS2.ok /\ ~value2.ok /\ ~Raised(value2.p) ->
               memoize(p, "key_value", <<>>,
                       Throw(value2.p, AttributeError("lineno")))
          [] OTHER -> memoize(p, "key_value", <<>>, Fail(value2.p, pos))

Concat(a, b) == PyStr(a.s \o b.s)

\* int(s) does not raise ValueError.
IsIntLiteral(s) == s # <<>> /\ \A i \in 1..Len(s) : s[i] \in Digits

ActionLetters == {"c", "d", "h", "i", "n", "r", "s", "t", "v"}

\* OPENER action CLOSER: the action between the brackets.
action_group(p, OPENER, CLOSER) ==
    LET open == expect_token(p, OPENER)
        action_ == expect_production(open.p, "action")
        close == expect_token(action_.p, CLOSER)
    IN  IF open.ok /\ action_.ok /\ close.ok THEN Ok(close.p, action_.v) ELSE close

action_method(p) ==
    LET pos == mark(p)
        \* action -> action action
        action1 == expect_production(p, "action")
        action2 == expect_production(action1.p, "action")
        \* action -> '{' action '}' NUMBER?
        braces == action_group(reset(action2.p, pos), "LBRACE", "RBRACE")
        NUMBER == maybe_token(braces.p, "NUMBER")
        \* action -> '[' action ']'
        brackets == action_group(reset(NUMBER.p, pos), "LBRACKET", "RBRACKET")
        \* action -> '(' action ')'
        parens == action_group(reset(brackets.p, pos), "LPAREN", "RPAREN")
        \* action -> ('c' | 'd' | 'h' | 'i' | 'n' | 'r' | 's' | 't' | 'v')+
        NAME == expect_token(reset(parens.p, pos), "NAME")
    IN  CASE (/\ action1.ok
              /\ action2.ok) -> Ok(action2.p, Concat(action1.v, action2.v))
          [] braces.ok /\ NUMBER.ok /\ NUMBER.v = EMPTY ->
               Ok(NUMBER.p, Concat(Concat(PyStr(<<"{">>), braces.v), PyStr(<<"}">>)))
          \* NUMBER = int(NUMBER.value), then str + int raises TypeError; where
          \* int() raises ValueError the alternative is passed over.
          [] NUMBER.ok /\ IsIntLiteral(NUMBER.v.value.s) ->
               Throw(NUMBER.p, TypeError("can only concatenate str (not int) to str"))
          [] brackets.ok ->
               Ok(brackets.p, Concat(Concat(PyStr(<<"[">>), brackets.v), PyStr(<<"]">>)))
          [] parens.ok ->
               Ok(parens.p, Concat(Concat(PyStr(<<"(">>), parens.v), PyStr(<<")">>)))
          [] (/\ NAME.ok
              /\ \A i \in 1..Len(NAME.v.value.s) : NAME.v.value.s[i] \in ActionLetters) ->
               Ok(NAME.p, NAME.v.value)
          [] OTHER -> Fail(NAME.p, pos)

\* expr with an expr, not an expr1, to the right of its operator.
expr_rhs_expr(p) ==
    LET pos == mark(p)
        \* expr -> expr '+' expr1
        lhs1 == expect_production(p, "expr")
        operator1 == expect_token(lhs1.p, "PLUS")
        rhs1 == expect_production(operator1.p, "expr")
        \* expr -> expr '-' expr1
        lhs2 == expect_production(reset(rhs1.p, pos), "expr")
        operator2 == expect_token(lhs2.p, "MINUS")
        rhs2 == expect_production(operator2.p, "expr")
        \* expr -> expr1
        expr1_ == expect_production(reset(rhs2.p, pos), "expr1")
    IN  CASE (/\ lhs1.ok
              /\ operator1.ok
              /\ rhs1.ok) ->
               Ok(rhs1.p, OptocadBinaryExpression(operator1.v.value, lhs1.v, rhs1.v))
          [] (/\ lhs2.ok
              /\ operator2.ok
              /\ rhs2.ok) ->
               Ok(rhs2.p, OptocadBinaryExpression(operator2.v.value, lhs2.v, rhs2.v))
          [] expr1_.ok -> expr1_
          [] OTHER -> Fail(expr1_.p, pos)

expr_method(p) ==
    LET pos == mark(p)
        \* expr -> expr '+' expr1
        lhs1 == expect_production(p, "expr")
        operator1 == expect_token(lhs1.p, "PLUS")
        rhs1 == expect_production(operator1.p, "expr1")
        \* expr -> expr '-' expr1
        lhs2 == expect_production(reset(rhs1.p, pos), "expr")
        operator2 == expect_token(lhs2.p, "MINUS")
        rhs2 == expect_production(operator2.p, "expr1")
        \* expr -> expr1
        expr1_ == expect_production(reset(rhs2.p, pos), "expr1")
    IN  CASE (/\ lhs1.ok
              /\ operator1.ok
              /\ rhs1.ok) ->
               Ok(rhs1.p, OptocadBinaryExpression(operator1.v.value, lhs1.v, rhs1.v))
          [] (/\ lhs2.ok
              /\ operator2.ok
              /\ rhs2.ok) ->
               Ok(rhs2.p, OptocadBinaryExpression(operator2.v.value, lhs2.v, rhs2.v))
          [] expr1_.ok -> expr1_
          [] OTHER -> Fail(expr1_.p, pos)

expr1_method(p) ==
    LET pos == mark(p)
        \* expr1 -> expr1 '*' expr2
        lhs1 == expect_production(p, "expr1")
        operator1 == expect_token(lhs1.p, "TIMES")
        rhs1 == expect_production(operator1.p, "expr2")
        \* expr1 -> expr1 '/' expr2
        lhs2 == expect_production(reset(rhs1.p, pos), "expr1")
        operator2 == expect_token(lhs2.p, "DIVIDE")
        rhs2 == expect_production(operator2.p, "expr2")
        \* expr1 -> expr1 '//' expr2
        lhs3 == expect_production(reset(rhs2.p, pos), "expr1")
        operator3 == expect_token(lhs3.p, "FLOORDIVIDE")
        rhs3 == expect_production(operator3.p, "expr2")
        \* expr1 -> expr2
        expr2_ == expect_production(reset(rhs3.p, pos), "expr2")
    IN  CASE (/\ lhs1.ok
              /\ operator1.ok
              /\ rhs1.ok) ->
               Ok(rhs1.p, OptocadBinaryExpression(operator1.v.value, lhs1.v, rhs1.v))
          [] (/\ lhs2.ok
              /\ operator2.ok
              /\ rhs2.ok) ->
               Ok(rhs2.p, OptocadBinaryExpression(operator2.v.value, lhs2.v, rhs2.v))
          [] (/\ lhs3.ok
              /\ operator3.ok
              /\ rhs3.ok) ->
               Ok(rhs3.p, OptocadBinaryExpression(operator3.v.value, lhs3.v, rhs3.v))
          [] expr2_.ok -> expr2_
          [] OTHER -> Fail(expr2_.p, pos)

expr2(p) ==
    LET pos == mark(p)
        \* expr2 -> '+' expr2
        operator1 == expect_token(p, "PLUS")
        expr2_1 == expect_production(operator1.p, "expr2")
        \* expr2 -> '-' expr2
        operator2 == expect_token(reset(expr2_1.p, pos), "MINUS")
        expr2_2 == expect_production(operator2.p, "expr2")
        \* expr2 -> expr3
        expr3_ == expect_production(reset(expr2_2.p, pos), "expr3")
    IN  CASE memoized(p, "expr2", <<>>) -> Recall(p, "expr2", <<>>)
          [] (/\ operator1.ok
              /\ expr2_1.ok) ->
               memoize(p, "expr2", <<>>,
                       Ok(expr2_1.p, OptocadUnaryExpression(operator1.v.value, expr2_1.v)))
          [] (/\ operator2.ok
              /\ expr2_2.ok) ->
               memoize(p, "expr2", <<>>,
                       Ok(expr2_2.p, OptocadUnaryExpression(operator2.v.value, expr2_2.v)))
          [] expr3_.ok -> memoize(p, "expr2", <<>>, expr3_)
          [] OTHER -> memoize(p, "expr2", <<>>, Fail(expr3_.p, pos))

expr3(p) ==
    LET pos == mark(p)
        \* expr3 -> expr4 '**' expr2
        expr4_1 == expect_production(p, "expr4")
        power == expect_token(expr4_1.p, "POWER")
        expr2_ == expect_production(power.p, "expr2")
        \* expr3 -> expr4
        expr4_2 == expect_production(reset(expr2_.p, pos), "expr4")
    IN  CASE memoized(p, "expr3", <<>>) -> Recall(p, "expr3", <<>>)
          [] (/\ expr4_1.ok
              /\ power.ok
              /\ expr2_.ok) ->
               memoize(p, "expr3", <<>>,
                       Ok(expr2_.p, OptocadBinaryExpression(power.v.value, expr4_1.v, expr2_.v)))
          [] expr4_2.ok -> memoize(p, "expr3", <<>>, expr4_2)
          [] OTHER -> memoize(p, "expr3", <<>>, Fail(expr4_2.p, pos))

expr4(p) ==
    LET pos == mark(p)
        \* expr4 -> '(' expr ')'
        open == expect_token(p, "LPAREN")
        expr_ == expect_production(open.p, "expr")
        close == expect_token(expr_.p, "RPAREN")
        \* expr4 -> NUMBER, not followed by another NUMBER
        TOKEN == expect_token(reset(close.p, pos), "NUMBER")
        alone == negative_lookahead(TOKEN.p, "NUMBER")
        \* if (error := self.expect_production("invalid_expr4")) is not None
        error == expect_production(reset(alone.p, pos), "invalid_expr4")
    IN  CASE memoized(p, "expr4", <<>>) -> Recall(p, "expr4", <<>>)
          [] (/\ open.ok
              /\ expr_.ok
              /\ close.ok) -> memoize(p, "expr4", <<>>, Ok(close.p, expr_.v))
          [] TOKEN.ok /\ alone.ok /\ alone.v -> memoize(p, "expr4", <<>>, Ok(alone.p, TOKEN.v.value))
          [] error.ok -> memoize(p, "expr4", <<>>, Throw(error.p, error.v))
          [] OTHER -> memoize(p, "expr4", <<>>, Fail(error.p, pos))

\* self.script is self._tokenizer.script.
self_script(p) == p.tk.runs[p.tk.n].t.script

\* OptocadSyntaxError(message, self.script, NUMBER): three of the five
\* arguments __init__ requires, so the construction raises TypeError.
OptocadSyntaxError3(message, filename, lineno) ==
    TypeError("__init__() missing 2 required positional arguments")

invalid_expr4(p) ==
    LET pos == mark(p)
        NUMBER1 == expect_token(p, "NUMBER")
        NUMBER2 == expect_token(NUMBER1.p, "NUMBER")
    IN  CASE memoized(p, "invalid_expr4", <<>>) -> Recall(p, "invalid_expr4", <<>>)
          [] ~(NUMBER1.ok /\ NUMBER2.ok) -> memoize(p, "invalid_expr4", <<>>, Fail(NUMBER2.p, pos))
          [] NUMBER1.v.value.ty = "int" /\ NUMBER2.v.value.ty = "int" ->
               memoize(p, "invalid_expr4", <<>>,
                       Throw(NUMBER2.p,
                             OptocadSyntaxError3("leading zeros in integers are not permitted",
                                                 self_script(NUMBER2.p), NUMBER1.v)))
          [] OTHER ->
               memoize(p, "invalid_expr4", <<>>,
                       Throw(NUMBER2.p,
                             OptocadSyntaxError3("invalid number syntax",
                                                 self_script(NUMBER2.p), NUMBER2.v)))

----------------------------------------------------------------------------
(* parser.py: dispatch and the entry points. *)

LeftRecursive == {"command_key_value_list", "action", "expr", "expr1"}

Method(p, name) ==
    CASE name = "command_key_value_list" -> command_key_value_list_method(p)
      [] name = "action" -> action_method(p)
      [] name = "expr" -> expr_method(p)
      [] name = "expr1" -> expr1_method(p)

getattr(p, name, args) ==
    CASE p.skip -> None(p)
      [] name = "peek_token" -> peek_token_method(p)
      [] name = "get_token" -> get_token_method(p)
      [] name = "positive_lookahead" -> positive_lookahead_method(p, args[1])
      [] name = "negative_lookahead" -> negative_lookahead_method(p, args[1])
      [] name = "maybe_token" -> maybe_token_method(p, args[1])
      [] name = "maybe_trailing_comma" -> maybe_trailing_comma_method(p)
      [] name = "expect_token" -> expect_token_method(p, args[1])
      [] name = "loop_token" -> loop_token_method(p, args[1], args[2])
      [] name = "loop_production" -> loop_production_method(p, args[1], args[2])
      [] name = "start" -> start_method(p)
      [] name = "script_line" -> script_line(p)
      [] name = "command" -> command(p)
      [] name = "command_params" -> command_params(p)
      [] name = "command_value_list" -> command_value_list(p)
      [] name = "positional_value" -> positional_value(p)
      [] name = "value" -> value(p)
      [] name = "key_value" -> key_value(p)
      [] name = "expr2" -> expr2(p)
      [] name = "expr3" -> expr3(p)
      [] name = "expr4" -> expr4(p)
      [] name = "invalid_expr4" -> invalid_expr4(p)
      [] name \in LeftRecursive -> memoize_left_rec(p, name)

\* OptocadParser(): the object as __init__ leaves it.  `fresh` stands for the
\* None that tokens, pos, memos and optocad_script hold until the first parse.
NewParser ==
    [fresh |-> TRUE, tokens |-> <<>>, pos |-> 0, memos |-> <<>>,
     optocad_script |-> <<>>, tk |-> [runs |-> <<>>, n |-> 0, asked |-> <<>>],
     exc |-> NoExc,
     skip |-> FALSE, replay |-> TRUE, attempts |-> <<>>]

diagnose_error(p) ==
    LET error_token == IF p.tokens = <<>> THEN peek_token_method(p)
                       ELSE Ok(p, Last(p.tokens))
    IN  IF ~error_token.ok THEN error_token
        ELSE Throw(error_token.p, raise_error("syntax error", error_token.v))

\* parse_file handing back the script collected so far where start() is None.
ReturnOrDiagnose_script(script) ==
    IF script.ok \/ Raised(script.p) THEN script
    ELSE Ok(Resume(script.p), script.p.optocad_script)

\* if (script := ...) is not None: return script; self._diagnose_error()
ReturnOrDiagnose(script) ==
    IF script.ok \/ Raised(script.p) THEN script
    ELSE diagnose_error(Resume(script.p))

\* parse_file without `self.memos = {}`.
parse_file_keeps_memos(self, f) ==
    LET p0 == [self EXCEPT !.fresh = FALSE, !.tokens = <<>>, !.pos = 0,
                           !.optocad_script = <<>>, !.exc = NoExc,
                           !.skip = FALSE, !.attempts = <<>>]
        p1 == [p0 EXCEPT !.tk = TokenStream(f.text)]
    IN  IF ~f.named THEN Throw(p0, AttributeError("name"))
        ELSE ReturnOrDiagnose(expect_production(p1, "start"))

parse_file(self, f) ==
    LET p0 == [self EXCEPT !.fresh = FALSE, !.tokens = <<>>, !.pos = 0,
                           !.memos = <<>>, !.optocad_script = <<>>, !.exc = NoExc,
                           !.skip = FALSE, !.attempts = <<>>]
        p1 == [p0 EXCEPT !.tk = TokenStream(f.text)]
    IN  \* self._filename = fobj.name
        IF ~f.named THEN Throw(p0, AttributeError("name"))
        ELSE ReturnOrDiagnose(expect_production(p1, "start"))

\* parse(string) is parse_file(StringIO(string)), and a StringIO has no name.
StringIO(string) == [text |-> string, named |-> FALSE]

parse(self, string) == parse_file(self, StringIO(string))

----------------------------------------------------------------------------
(* The tokenizer driven on its own: one next() per step. *)

LexChars == {"a", "\t", "[", "]", "(", ")", "\n", "#", "$"}

RECURSIVE SeqsUpTo(_, _)
SeqsUpTo(S, n) ==
    IF n = 0 THEN {<<>>}
    ELSE LET shorter == SeqsUpTo(S, n - 1)
         IN  shorter \cup {Append(s, c) : s \in shorter, c \in S}

LexTexts == SeqsUpTo(LexChars, MaxChars)

InitLex ==
    /\ fobj \in {[text |-> x, named |-> TRUE] : x \in LexTexts}
    /\ tokenizer = NewTokenizer(fobj.text)
    /\ emitted = <<>>
    /\ raised = <<>>
    /\ stopped = FALSE
    /\ parser = NewParser
    /\ outcome = [kind |-> "none"]
    /\ calls = 0

NextToken ==
    /\ ~stopped
    /\ LET g == GenNext(tokenizer) IN
       /\ tokenizer' = g.t
       /\ emitted' = IF g.kind = "yield" THEN Append(emitted, g.token) ELSE emitted
       /\ raised' = IF g.kind = "raise" THEN Append(raised, g.err) ELSE raised
       /\ stopped' = (g.kind = "stop")
    /\ UNCHANGED <<fobj, parser, outcome, calls>>

NextLex == NextToken

SpecLex == InitLex /\ [][NextLex]_vars

----------------------------------------------------------------------------
(* The parser: one call of parse or parse_file on an input. *)

RECURSIVE Flatten(_)
Flatten(ss) == IF ss = <<>> THEN <<>> ELSE Head(ss) \o Flatten(Tail(ss))

\* The items of s with `sep` between them.
RECURSIVE Join(_, _)
Join(ss, sep) ==
    IF ss = <<>> THEN <<>>
    ELSE IF Len(ss) = 1 THEN Head(ss)
    ELSE Head(ss) \o sep \o Join(Tail(ss), sep)

SeqsFromTo(S, lo, hi) == {s \in SeqsUpTo(S, hi) : Len(s) >= lo}

\* Every string of up to MaxShort characters.
ShortChars == {"m", "0", "1", " ", ",", "=", "+", "\n"}

ShortTexts == SeqsUpTo(ShortChars, MaxShort)

\* One line: a directive or a "+", up to MaxParams parameters, an ending.
Heads == {<<"m", "1", " ">>, <<"+", " ">>}

Items == {<<"1">>, <<"2">>, <<"x", "=", "1">>, <<"y", "=", "2">>, <<"x", "=", "3">>}

Endings == {<<"\n">>, <<",", "\n">>, <<" ", "#", "c", "\n">>}

OneLineTexts ==
    {h \o Join(ps, <<",">>) \o e :
        h \in Heads, ps \in SeqsFromTo(Items, 1, MaxParams), e \in Endings}

\* Up to MaxLines simple lines.
SimpleLines ==
    {<<"m", " ", "1", "\n">>, <<"n", " ", "x", "=", "2", "\n">>,
     <<"+", " ", "1", "\n">>, <<"+", " ", "y", "=", "2", "\n">>,
     <<"\n">>, <<"#", "c", "\n">>}

ScriptTexts == {Flatten(ls) : ls \in SeqsUpTo(SimpleLines, MaxLines)}

\* One directive with one expression of two operators over 1, 2 and 3, bare
\* or with one of its operations in parentheses or an operand negated.
Operators == {<<"+">>, <<"-">>, <<"*">>, <<"/">>, <<"/", "/">>, <<"*", "*">>}

Exprs ==
    {<<"1">> \o a \o <<"2">> \o b \o <<"3">> : a, b \in Operators}
        \cup {<<"(", "1">> \o a \o <<"2", ")">> \o b \o <<"3">> : a, b \in Operators}
        \cup {<<"1">> \o a \o <<"(", "2">> \o b \o <<"3", ")">> : a, b \in Operators}
        \cup {<<"-", "1">> \o a \o <<"2">> : a \in Operators}
        \cup {<<"1">> \o a \o <<"-", "2">> : a \in Operators}

\* A power as the second value of a list.
ListedPower == <<"m", "1", " ", "1", ",", "3", "*", "*", "2", "\n">>

ExprTexts == {<<"m", "1", " ">> \o e \o <<"\n">> : e \in Exprs} \cup {ListedPower}

\* Action strings: letters, groups, repeat counts, and what is none of them.
ActionTexts ==
    {<<"m", "1", " ", "c", "\n">>,
     <<"m", "1", " ", "c", "r", "v", "\n">>,
     <<"m", "1", " ", "c", "r", "x", "\n">>,
     <<"m", "1", " ", "x", "\n">>,
     <<"m", "1", " ", "c", " ", "d", "\n">>,
     <<"m", "1", " ", "{", "c", "}", "\n">>,
     <<"m", "1", " ", "{", "c", "}", "2", "\n">>,
     <<"m", "1", " ", "{", "c", "}", "1", ".", "5", "\n">>,
     <<"m", "1", " ", "[", "c", "]", "\n">>,
     <<"m", "1", " ", "(", "c", ")", "\n">>,
     <<"m", "1", " ", "c", "[", "d", "]", "\n">>,
     <<"m", "1", " ", "{", "c", "}", "{", "d", "}", "\n">>,
     <<"m", "1", " ", "{", "x", "}", "\n">>,
     <<"m", "1", " ", "{", "c", "\n">>,
     <<"m", "1", " ", "c", ",", " ", "x", "=", "d", "\n">>}

\* Brackets and parentheses, closed, unclosed and unmatched.
NestingTexts ==
    {<<"m", "1", " ", "(", "1", "\n">>,
     <<"m", "1", " ", "1", ")", "\n">>,
     <<"m", "1", " ", "[", "c", "\n">>,
     <<"m", "1", " ", "c", "]", "\n">>,
     <<"m", "1", " ", "(", "1", ")", "\n">>,
     <<"m", "1", " ", "(", "(", "1", ")", "\n">>,
     <<"m", "1", " ", "(", "1", "]", "\n">>,
     <<"m", "1", " ", "[", "c", ")", "\n">>,
     <<"m", "1", " ", "(", "1">>,
     <<"(", "\n">>,
     <<")">>,
     <<"[", "\n">>,
     <<"]", "\n">>,
     <<"(", ")", "\n">>,
     <<"[", "]", "\n">>,
     <<"#", " ", "(", "\n">>,
     <<"m", "1", " ", "1", " ", "#", " ", "]", "\n">>}

\* Keyword arguments and the commas between parameters.
KeywordTexts ==
    {<<"m", "1", " ", "x", "=", "1", ",", ",", "y", "=", "2", "\n">>,
     <<"m", "1", " ", "x", "=", "1", ",", "y", "=", "2", "\n">>,
     <<"m", "1", " ", "x", "=", "1", ",", ",", ",", "y", "=", "2", "\n">>,
     <<"m", "1", " ", "x", "=", "1", ",", ",", "\n">>,
     <<"m", "1", " ", "1", ",", ",", "2", "\n">>,
     <<"m", "1", " ", "1", ",", ",", "x", "=", "2", "\n">>,
     <<"m", "1", " ", "1", ",", " ", "2", "\n">>,
     <<"m", "1", " ", "x", "=", "1", ",", " ", "2", "\n">>,
     <<"m", "1", " ", "x", "=", "1", ",", "y", "=", "2", ",", "x", "=", "3", ",", "y", "=", "4", "\n">>}

ParseTexts ==
    ShortTexts \cup OneLineTexts \cup ScriptTexts \cup ExprTexts \cup ActionTexts
        \cup NestingTexts \cup KeywordTexts

Init ==
    /\ fobj \in {[text |-> x, named |-> n] : x \in ParseTexts, n \in BOOLEAN}
    /\ tokenizer = NewTokenizer(<<>>)
    /\ emitted = <<>>
    /\ raised = <<>>
    /\ stopped = FALSE
    /\ parser = NewParser
    /\ outcome = [kind |-> "none"]
    /\ calls = 0

Ended(r) ==
    /\ parser' = [r.p EXCEPT !.exc = NoExc]
    /\ outcome' = IF r.ok THEN [kind |-> "return", value |-> r.v]
                          ELSE [kind |-> "raise", exc |-> r.p.exc]
    /\ calls' = calls + 1
    /\ UNCHANGED <<fobj, tokenizer, emitted, raised, stopped>>

\* parser.parse_file(fobj) on a file opened in text mode.
ParseFile ==
    /\ outcome.kind = "none"
    /\ fobj.named
    /\ Ended(parse_file(parser, fobj))

\* parser.parse(string).
Parse ==
    /\ outcome.kind = "none"
    /\ ~fobj.named
    /\ Ended(parse(parser, fobj.text))

Next == ParseFile \/ Parse

Spec == Init /\ [][Next]_vars

----------------------------------------------------------------------------
(* The parser driven one method call at a time: from the state in which    *)
(* parse_file calls start(), any primitive or production is called at the  *)
(* cursor, and the cursor is put back to any earlier mark.                 *)

\* Fragments of scripts for the single calls.
CallTexts ==
    {<<"{", "c", "}", "1", ".", "5", "\n">>,
     <<"1", " ", "2", "\n">>,
     <<"x", " ", "1", "\n">>,
     <<"m", "1", " ", "x", "=", "1", ",", "\n">>,
     <<"1", "+", "2", "\n">>,
     <<"(", "1">>,
     <<",", "\n">>,
     <<",", "1", "\n">>,
     <<"m", "1", " ", "1", ",", ",", "2", "\n">>}

\* The token types the primitives are called with.
TokenTypes == {"NAME", "NUMBER"}

\* The productions loop_production is called with.
LoopProductions == {"script_line", "key_value"}

Productions ==
    {"start", "script_line", "command", "command_params", "command_value_list",
     "positional_value", "value", "key_value", "expr2", "expr3", "expr4",
     "invalid_expr4"} \cup LeftRecursive

\* parse_file up to its call of start(): the fields set, the token stream
\* opened.
InitCalls ==
    /\ fobj \in {[text |-> x, named |-> TRUE] : x \in CallTexts}
    /\ tokenizer = NewTokenizer(<<>>)
    /\ emitted = <<>>
    /\ raised = <<>>
    /\ stopped = FALSE
    /\ parser = [NewParser EXCEPT !.fresh = FALSE, !.tk = TokenStream(fobj.text)]
    /\ outcome = [kind |-> "none"]
    /\ calls = 0

\* One call self.<name>(*args) and how it ended; a None result has ok FALSE.
Called(name, args) ==
    /\ calls < MaxCalls
    /\ \E r \in {getattr(parser, name, args)} :
        /\ calls' = calls + 1
        /\ parser' = [r.p EXCEPT !.exc = NoExc, !.skip = FALSE]
        /\ outcome' = [kind |-> IF Raised(r.p) THEN "raise" ELSE "return",
                       call |-> <<name, args>>, ok |-> r.ok, value |-> r.v,
                       exc |-> r.p.exc]
        /\ UNCHANGED <<fobj, tokenizer, emitted, raised, stopped>>

\* self.reset(pos) with a pos that mark() gave earlier.
Reset ==
    /\ calls < MaxCalls
    /\ \E pos \in 0..parser.pos :
          /\ parser' = reset(parser, pos)
          /\ outcome' = [kind |-> "return", call |-> <<"reset", <<pos>>>>, ok |-> TRUE,
                         value |-> PyNone, exc |-> NoExc]
    /\ calls' = calls + 1
    /\ UNCHANGED <<fobj, tokenizer, emitted, raised, stopped>>

PeekToken == Called("peek_token", <<>>)

GetToken == Called("get_token", <<>>)

Lookahead ==
    \E name \in {"positive_lookahead", "negative_lookahead"}, token_type \in TokenTypes :
        Called(name, <<token_type>>)

ExpectToken == \E token_type \in TokenTypes : Called("expect_token", <<token_type>>)

MaybeToken == \E token_type \in TokenTypes : Called("maybe_token", <<token_type>>)

MaybeTrailingComma == Called("maybe_trailing_comma", <<>>)

\* nonempty is False or True, which len(nodes) >= nonempty compares as 0 or 1.
LoopTokenCall ==
    \E token \in TokenTypes, nonempty \in {0, 1} : Called("loop_token", <<token, nonempty>>)

LoopProductionCall ==
    \E production \in LoopProductions, nonempty \in {0, 1} :
        Called("loop_production", <<production, nonempty>>)

ExpectProduction == \E production \in Productions : Called(production, <<>>)

NextCalls ==
    \/ Reset
    \/ PeekToken
    \/ GetToken
    \/ Lookahead
    \/ ExpectToken
    \/ MaybeToken
    \/ MaybeTrailingComma
    \/ LoopTokenCall
    \/ LoopProductionCall
    \/ ExpectProduction

SpecCalls == InitCalls /\ [][NextCalls]_vars

----------------------------------------------------------------------------
(* One parser used for several parses, one after another. *)

AgainTexts ==
    {<<"m", "1", " ", "1", "\n">>,
     <<"m", "1", " ", "1", "\n", "+", " ", "2", "\n">>,
     <<"m", "1", " ", "x", "=", "1", "\n">>,
     <<"+", " ", "1", "\n">>,
     <<"m", "1", " ", "(", "1">>,
     <<"m", "1", " ", "=", "\n">>,
     <<>>,
     <<"m", "1", " ", "1", "+", "2", "\n">>,
     <<"m", "1", " ", "c", "\n">>,
     <<"m", "1", " ", "1", ",", " ", "x", "=", "2", "\n">>}

InitAgain ==
    /\ fobj = StringIO(<<>>)
    /\ tokenizer = NewTokenizer(<<>>)
    /\ emitted = <<>>
    /\ raised = <<>>
    /\ stopped = FALSE
    /\ parser = NewParser
    /\ outcome = [kind |-> "none"]
    /\ calls = 0

\* How the parse of f ended; `before` is how the parse before it ended.
EndedAgain(f, r) ==
    /\ calls < MaxParses
    /\ calls' = calls + 1
    /\ fobj' = f
    /\ parser' = [r.p EXCEPT !.exc = NoExc]
    /\ outcome' = IF r.ok THEN [kind |-> "return", value |-> r.v, before |-> outcome.kind]
                          ELSE [kind |-> "raise", exc |-> r.p.exc, before |-> outcome.kind]
    /\ UNCHANGED <<tokenizer, emitted, raised, stopped>>

\* parser.parse_file(fobj) on the parser as the parse before left it.
ParseFileAgain ==
    \E x \in AgainTexts :
        \E r \in {parse_file(parser, [text |-> x, named |-> TRUE])} :
            EndedAgain([text |-> x, named |-> TRUE], r)

\* parser.parse(string) on the parser as the parse before left it.
ParseAgain ==
    \E x \in AgainTexts : \E r \in {parse(parser, x)} : EndedAgain(StringIO(x), r)

NextAgain == ParseFileAgain \/ ParseAgain

SpecAgain == InitAgain /\ [][NextAgain]_vars

----------------------------------------------------------------------------
(* The input text read as lines and parameters, without the tokenizer or   *)
(* the parser: what the claims about parse results are compared with.      *)

\* The pieces of s between the occurrences of sep.
RECURSIVE SplitOn(_, _)
SplitOn(s, sep) ==
    LET k == UntilEnd(s, 0, {sep})
    IN  IF k = Len(s) THEN <<s>>
        ELSE <<SubSeq(s, 1, k)>> \o SplitOn(SubSeq(s, k + 2, Len(s)), sep)

\* The lines of a text without their line feeds.
SplitLines(text) ==
    LET parts == SplitOn(text, "\n")
    IN  IF Last(parts) = <<>> THEN SubSeq(parts, 1, Len(parts) - 1) ELSE parts

RECURSIVE StripEnd(_)
StripEnd(s) ==
    IF s # <<>> /\ Last(s) \in IGNORE THEN StripEnd(SubSeq(s, 1, Len(s) - 1)) ELSE s

Strip(s) == StripEnd(SubSeq(s, RunEnd(s, 0, IGNORE) + 1, Len(s)))

\* A line without its comment and the blanks around it.
Code(line) == Strip(SubSeq(line, 1, UntilEnd(line, 0, {"#"})))

NameChars == Letters \cup Digits \cup {"."}

IsPrimaryLine(line) == Code(line) # <<>> /\ Head(Code(line)) \in Letters

IsSecondaryLine(line) == Code(line) # <<>> /\ Head(Code(line)) = "+"

IsCommandLine(line) == Code(line) # <<>>

\* The leading name of a primary command line.
Directive(line) == SubSeq(Code(line), 1, RunEnd(Code(line), 0, NameChars))

\* What follows the directive, or the "+".
ParamText(line) ==
    LET code == Code(line)
        from == IF IsPrimaryLine(line) THEN RunEnd(code, 0, NameChars) ELSE 1
    IN  SubSeq(code, from + 1, Len(code))

\* The parameters of a command line: the pieces between its commas, a comma
\* after the last one allowed.
ParamItems(line) ==
    LET parts == SplitOn(ParamText(line), ",")
        items == [i \in 1..Len(parts) |-> Strip(parts[i])]
    IN  IF Len(items) > 1 /\ Last(items) = <<>>
        THEN SubSeq(items, 1, Len(items) - 1)
        ELSE items

IsWord(s) == s # <<>> /\ \A i \in 1..Len(s) : s[i] \in NameChars

IsKeyword(item) == \E i \in 1..Len(item) : item[i] = "="

Key(item) == Strip(SubSeq(item, 1, UntilEnd(item, 0, {"="})))

Val(item) == Strip(SubSeq(item, UntilEnd(item, 0, {"="}) + 2, Len(item)))

IsPlainItem(item) ==
    IF IsKeyword(item)
    THEN IsWord(Key(item)) /\ Head(Key(item)) \in Letters /\ IsWord(Val(item))
    ELSE IsWord(item)

\* A command line whose parameters are plain names and numbers.
IsPlainLine(line) ==
    \A i \in 1..Len(ParamItems(line)) : IsPlainItem(ParamItems(line)[i])

IsPositional(item) == ~IsKeyword(item)

\* The positional values of a plain line, each read by Lit.
ArgsOf(line, Lit(_)) ==
    LET items == SelectSeq(ParamItems(line), IsPositional)
    IN  [i \in 1..Len(items) |-> Lit(items[i])]

\* d[k] = v on a dict: a key already there keeps its place.
DictSet(d, k, v) ==
    IF \E i \in 1..Len(d) : d[i].k = k
    THEN [i \in 1..Len(d) |-> IF d[i].k = k THEN [k |-> k, v |-> v] ELSE d[i]]
    ELSE Append(d, [k |-> k, v |-> v])

\* dict(pairs): a later value of a key replaces the earlier one.
RECURSIVE DictOf(_)
DictOf(pairs) ==
    IF pairs = <<>> THEN <<>>
    ELSE DictSet(DictOf(SubSeq(pairs, 1, Len(pairs) - 1)),
                 Last(pairs).k, Last(pairs).v)

\* The keyword parameters of a plain line, each value read by Lit.
KwargsOf(line, Lit(_)) ==
    LET items == SelectSeq(ParamItems(line), IsKeyword)
    IN  DictOf([i \in 1..Len(items) |->
                   [k |-> PyStr(Key(items[i])), v |-> Lit(Val(items[i]))]])

\* The value of a decimal integer literal.
RECURSIVE Number(_)
Number(s) ==
    IF s = <<>> THEN 0
    ELSE 10 * Number(SubSeq(s, 1, Len(s) - 1))
         + (CHOOSE d \in 0..9 : ToString(d) = Last(s))

\* A value as the text the token holds, and as the literal it denotes.
AsText(s) == PyStr(s)

AsLiteral(s) == IF IsIntLiteral(s) THEN PyInt(Number(s)) ELSE PyStr(s)

\* The command lines of a text, each primary line with the "+" lines that
\* follow it before the next primary line.
RECURSIVE Groups(_)
Groups(lines) ==
    IF lines = <<>> THEN <<>>
    ELSE LET before == Groups(SubSeq(lines, 1, Len(lines) - 1))
             line == Last(lines)
         IN  IF IsPrimaryLine(line)
             THEN Append(before, [primary |-> line, secondary |-> <<>>])
             ELSE IF before = <<>> THEN before
             ELSE [before EXCEPT ![Len(before)].secondary = Append(@, line)]

CommandLines(text) == SelectSeq(SplitLines(text), IsCommandLine)

Returned == outcome.kind = "return"

----------------------------------------------------------------------------
(* C1 *)

\* C1: when parse_file returns, the Script holds one Command per primary
\* command line of the input, in the order of the lines and with the line's
\* directive; blank lines and comment lines add nothing, and the empty input
\* gives the empty Script.
C1_OneCommandPerLine ==
    Returned =>
        LET primary == SelectSeq(SplitLines(fobj.text), IsPrimaryLine)
            script == outcome.value
        IN  /\ Len(script) = Len(primary)
            /\ \A i \in 1..Len(script) :
                  /\ script[i].ty = "OptocadCommand"
                  /\ script[i].directive = PyStr(Directive(primary[i]))
            /\ fobj.text = <<>> => script = <<>>

\* Two commands with different directives and a line that is no command.
C1_Witness ==
    /\ Returned
    /\ Len(outcome.value) = 2
    /\ outcome.value[1].directive # outcome.value[2].directive
    /\ Len(SplitLines(fobj.text)) = 3

----------------------------------------------------------------------------
(* C2 *)

\* C2: the Command of a primary command line has the line's leading name as
\* its directive, the line's positional values in order as args (the numbers
\* 1 and 2 for "m1 1,2") and its keys with their values in order as kwargs.
C2_CommandFields ==
    Returned =>
        LET primary == SelectSeq(SplitLines(fobj.text), IsPrimaryLine)
            script == outcome.value
        IN  \A i \in 1..Len(script) :
               (i <= Len(primary) /\ IsPlainLine(primary[i])) =>
                  /\ script[i].directive = PyStr(Directive(primary[i]))
                  /\ script[i].args = ArgsOf(primary[i], AsLiteral)
                  /\ script[i].kwargs = KwargsOf(primary[i], AsLiteral)

----------------------------------------------------------------------------
(* C3 *)

\* C3: when parse_file returns, no element of the Script is a
\* SecondarySurfaceCommand, and the secondary_surfaces of each Command are
\* the "+" lines between its line and the next primary line, in order, each
\* a SecondarySurfaceCommand with that line's parameters.
C3_SecondarySurfaces ==
    Returned =>
        LET groups == Groups(CommandLines(fobj.text))
            script == outcome.value
        IN  /\ Len(script) = Len(groups)
            /\ \A i \in 1..Len(script) :
                  LET surfaces == script[i].secondary_surfaces
                      lines == groups[i].secondary
                  IN  /\ script[i].ty # "OptocadSecondarySurfaceCommand"
                      /\ Len(surfaces) = Len(lines)
                      /\ \A j \in 1..Len(surfaces) :
                            /\ surfaces[j].ty = "OptocadSecondarySurfaceCommand"
                            /\ IsPlainLine(lines[j]) =>
                                  /\ surfaces[j].args = ArgsOf(lines[j], AsText)
                                  /\ surfaces[j].kwargs = KwargsOf(lines[j], AsText)

\* A command with two secondary surfaces, the second with a keyword.
C3_Witness ==
    /\ Returned
    /\ Len(outcome.value) = 1
    /\ Len(outcome.value[1].secondary_surfaces) = 2
    /\ outcome.value[1].secondary_surfaces[2].kwargs # <<>>

----------------------------------------------------------------------------
(* C4, C5, C6: the errors of the first command line. *)

Ran == outcome.kind # "none" /\ fobj.named

\* The number of the first command line of the text, 0 if it has none.
FirstCommand(text) ==
    LET lines == SplitLines(text)
        at == {i \in 1..Len(lines) : IsCommandLine(lines[i])}
    IN  IF at = {} THEN 0 ELSE CHOOSE i \in at : \A j \in at : i <= j

\* The parameters but the last are plain.
PlainButLast(line) ==
    \A i \in 1..Len(ParamItems(line)) - 1 : IsPlainItem(ParamItems(line)[i])

\* The 1-based column at which the last parameter of the line starts.
LastItemColumn(line) ==
    LET code == SubSeq(line, 1, UntilEnd(line, 0, {"#"}))
        full == StripEnd(IF Last(StripEnd(code)) = ","
                         THEN SubSeq(StripEnd(code), 1, Len(StripEnd(code)) - 1)
                         ELSE code)
    IN  Len(full) - Len(Last(ParamItems(line))) + 1

SyntaxErrorAt(exc, message, lineno, index) ==
    /\ exc.exc = "OptocadSyntaxError"
    /\ exc.msg = message
    /\ exc.lineno = lineno
    /\ exc.index = index

\* C4: when the first command line of the input is a "+" line, parse_file
\* raises the syntax error "secondary surface missing primary surface"
\* located on that line, and returns no Script.
C4_MissingPrimary ==
    LET lines == SplitLines(fobj.text)
        n == FirstCommand(fobj.text)
    IN  (Ran /\ n > 0 /\ IsSecondaryLine(lines[n]) /\ IsPlainLine(lines[n])) =>
            /\ outcome.kind = "raise"
            /\ outcome.exc.exc = "OptocadSyntaxError"
            /\ outcome.exc.msg = "secondary surface missing primary surface"
            /\ outcome.exc.lineno \in {n, n + 1}

\* C5: when the first command line is a primary line whose last parameter
\* is a key and "=" with no value, parse_file raises the syntax error "missing value" located
\* at the "=".
C5_MissingValue ==
    LET lines == SplitLines(fobj.text)
        n == FirstCommand(fobj.text)
        item == Last(ParamItems(lines[n]))
    IN  ( /\ Ran /\ n > 0 /\ IsPrimaryLine(lines[n])
          /\ PlainButLast(lines[n])
          /\ IsKeyword(item)
          /\ IsWord(Key(item)) /\ Head(Key(item)) \in Letters
          /\ Last(item) = "=" /\ Count(item, "=") = 1 ) =>
            /\ outcome.kind = "raise"
            /\ SyntaxErrorAt(outcome.exc, "missing value", n,
                             LastItemColumn(lines[n]) + Len(item) - 1)

\* C6: when the first command line is a primary line whose last value is an
\* integer written with a leading zero, which lexes as two NUMBER tokens in succession,
\* parse_file raises the syntax error "leading zeros in integers are not
\* permitted" located at the first NUMBER.
C6_LeadingZero ==
    LET lines == SplitLines(fobj.text)
        n == FirstCommand(fobj.text)
        item == Last(ParamItems(lines[n]))
        literal == IF IsKeyword(item) THEN Val(item) ELSE item
    IN  ( /\ Ran /\ n > 0 /\ IsPrimaryLine(lines[n])
          /\ PlainButLast(lines[n])
          /\ IsPlainItem(item)
          /\ IsIntLiteral(literal) /\ Len(literal) >= 2 /\ Head(literal) = "0" ) =>
            /\ outcome.kind = "raise"
            /\ SyntaxErrorAt(outcome.exc,
                             "leading zeros in integers are not permitted", n,
                             LastItemColumn(lines[n]) + Len(item) - Len(literal))

----------------------------------------------------------------------------
(* What the tokenizer is about to scan, read off its state. *)

\* The first character the generator will try to match on its next
\* resumption, its 0-based offset in its line and the tab offset accumulated
\* there; "<eol>" when nothing is left but ignorable whitespace.
Pending(t) ==
    LET restLine == SubSeq(t.line, t.index + 1, Len(t.line))
        k == RunEnd(restLine, 0, IGNORE)
        nextLine == ReadLine(t.unread)
        k2 == RunEnd(nextLine, 0, IGNORE)
    IN  IF k < Len(restLine)
        THEN [char |-> restLine[k + 1], offset |-> t.index + k, tabs |-> t.taboffset]
        ELSE [char |-> At(nextLine, k2), offset |-> k2, tabs |-> 0]

Scanning(t) == t.pc \in {"created", "line"}

----------------------------------------------------------------------------
(* C7 *)

IsSynthetic(token) == token.type = "NEWLINE" /\ token.value = PyNone

CountType(toks, type) == Cardinality({i \in 1..Len(toks) : toks[i].type = type})

EndsInTerminator(text) == text # <<>> /\ Last(text) = "\n"

\* C7: in every state ENDMARKER is nowhere but at the end of the emitted
\* tokens; and when an input has been lexed to the end without an error, its
\* tokens end with the one ENDMARKER, hold one NEWLINE per line feed of the
\* input, and hold exactly one synthetic NEWLINE, immediately before
\* ENDMARKER, if the input does not end in a line feed (the empty input
\* included), and none if it does.
C7_EndOfInput ==
    /\ \A i \in 1..Len(emitted) - 1 : emitted[i].type # "ENDMARKER"
    /\ (stopped /\ raised = <<>>) =>
          LET n == Len(emitted)
              synthetic == {i \in 1..n : IsSynthetic(emitted[i])}
          IN  /\ n >= 1
              /\ emitted[n].type = "ENDMARKER"
              /\ CountType(emitted, "ENDMARKER") = 1
              /\ IF EndsInTerminator(fobj.text)
                 THEN synthetic = {}
                 ELSE synthetic = {n - 1}
              /\ CountType(emitted, "NEWLINE")
                    = Count(fobj.text, "\n") + Cardinality(synthetic)

\* An input of two lines, the last without a line feed, lexed to the end.
C7_Witness ==
    /\ stopped /\ raised = <<>>
    /\ Count(fobj.text, "\n") = 1
    /\ ~EndsInTerminator(fobj.text)
    /\ Len(emitted) >= 4
    /\ IsSynthetic(emitted[Len(emitted) - 1])

----------------------------------------------------------------------------
(* C8 *)

Closers ==
    [c \in {"]", ")"} |->
        IF c = "]"
        THEN [type |-> "RBRACKET", opener |-> "[", msg |-> "extraneous ']'"]
        ELSE [type |-> "RPAREN", opener |-> "(", msg |-> "extraneous ')'"]]

TopIs(t, opener) ==
    t.nesting # <<>> /\ Last(t.nesting).value = PyStr(<<opener>>)

\* C8: a step emits RBRACKET (RPAREN) only from a state whose nesting stack
\* is not empty and has a "[" ("(") on top, and pops it; a step that meets a
\* closer in any other state raises "extraneous ']'" ("extraneous ')'")
\* located at the closer and emits nothing; and no step after an error emits
\* a token.
C8_Step ==
    /\ \A c \in DOMAIN Closers :
          /\ (emitted' # emitted /\ Last(emitted').type = Closers[c].type) =>
                /\ TopIs(tokenizer, Closers[c].opener)
                /\ tokenizer'.nesting
                      = SubSeq(tokenizer.nesting, 1, Len(tokenizer.nesting) - 1)
          /\ ( /\ Scanning(tokenizer)
               /\ Pending(tokenizer).char = c
               /\ ~TopIs(tokenizer, Closers[c].opener) ) =>
                LET at == Pending(tokenizer) IN
                /\ raised' = Append(raised,
                      OptocadSyntaxError(Closers[c].msg, tokenizer.lineno,
                          at.offset + at.tabs + 1, PyStr(<<c>>),
                          tokenizer.lineno, at.offset + at.tabs + 2))
                /\ emitted' = emitted
    /\ raised # <<>> => emitted' = emitted

C8_Closers == [][C8_Step]_vars

\* A closer was emitted for its opener and a later closer was refused.
C8_Witness ==
    /\ \E i \in 1..Len(emitted) : emitted[i].type \in {"RBRACKET", "RPAREN"}
    /\ raised # <<>>
    /\ raised[1].msg \in {"extraneous ']'", "extraneous ')'"}
    /\ stopped

----------------------------------------------------------------------------
(* C9 *)

IsUnclosed(err) == err.msg \in {"unclosed '['", "unclosed '('"}

\* C9: when the input is exhausted with k >= 1 openers on the nesting stack,
\* k "unclosed" errors are reported, one per opener and located at it.
C9_OnePerOpener ==
    (raised # <<>> /\ IsUnclosed(raised[1])) =>
        /\ Len(raised) = Len(tokenizer.nesting)
        /\ \A i \in 1..Len(raised) :
              raised[i]
                 = raise_error("unclosed '" \o tokenizer.nesting[i].value.s[1] \o "'",
                               tokenizer.nesting[i])

----------------------------------------------------------------------------
(* C10 *)

\* C10: the token emitted last from a match starts at column
\* 1 + its 0-based offset in its line + (TAB_SIZE - 1) x the tabs before it on
\* that line; and a lexical error is located the same way.
C10_TabColumns ==
    /\ (emitted # <<>> /\ tokenizer.pc = "line") =>
          LET token == Last(emitted)
              offset == tokenizer.index - Len(token.value.s)
          IN  token.start_index
                 = 1 + offset
                   + (TAB_SIZE - 1) * Count(SubSeq(tokenizer.line, 1, offset), "\t")
    /\ (raised # <<>> /\ raised[1].text.s[1] = "$") =>
          raised[1].index
             = 1 + tokenizer.index
               + (TAB_SIZE - 1) * Count(SubSeq(tokenizer.line, 1, tokenizer.index), "\t")

----------------------------------------------------------------------------
(* C26 *)

\* The brackets and parentheses of a text that are not in a comment, in order.
Nesting(text) ==
    LET lines == SplitLines(text)
        code == [i \in 1..Len(lines) |->
                    SubSeq(lines[i], 1, UntilEnd(lines[i], 0, {"#"}))]
    IN  SelectSeq(Flatten(code), LAMBDA c : c \in {"[", "]", "(", ")"})

\* Every closer of bs closes the opener of its kind that is open, given the
\* openers `open`, and none stays open.
RECURSIVE Balanced(_, _)
Balanced(bs, open) ==
    CASE bs = <<>> -> open = <<>>
      [] Head(bs) \in {"[", "("} -> Balanced(Tail(bs), Append(open, Head(bs)))
      [] open = <<>> -> FALSE
      [] <<Last(open), Head(bs)>> \in {<<"[", "]">>, <<"(", ")">>} ->
           Balanced(Tail(bs), SubSeq(open, 1, Len(open) - 1))
      [] OTHER -> FALSE

\* C26: the parser is handed an ENDMARKER only for an input whose brackets
\* and parentheses are all matched and closed, and parse_file returns no
\* Script for an input with an unclosed "[" or "(" or an unmatched "]" or ")".
C26_NoScriptUnbalanced ==
    (Ran /\ ~Balanced(Nesting(fobj.text), <<>>)) =>
        /\ ~Returned
        /\ \A i \in 1..Len(parser.tokens) : parser.tokens[i].type # "ENDMARKER"

\* The "(" of an expression is still open when the input ends, and the
\* tokenizer's error is what parse_file raises.
C26_Witness ==
    /\ Ran
    /\ Nesting(fobj.text) = <<"(">>
    /\ outcome.kind = "raise"
    /\ outcome.exc.exc = "OptocadSyntaxError"
    /\ outcome.exc.msg = "unclosed '('"

----------------------------------------------------------------------------
(* C24 *)

\* Two keyword parameters of the line have nothing but commas between them,
\* and more than one comma.
CommasBetweenKeywords(line) ==
    LET items == ParamItems(line)
    IN  \E i, j \in 1..Len(items) :
           /\ i + 1 < j
           /\ IsKeyword(items[i])
           /\ IsKeyword(items[j])
           /\ \A k \in i + 1..j - 1 : items[k] = <<>>

\* C24: a command line in which two or more consecutive commas separate two
\* keyword parameters (as in "m1 x=1,,y=2") is rejected: parse_file raises
\* and returns no Script.
C24_OneComma ==
    LET lines == SplitLines(fobj.text)
    IN  (Ran /\ \E i \in 1..Len(lines) : CommasBetweenKeywords(lines[i])) =>
            outcome.kind = "raise"

----------------------------------------------------------------------------
(* C25 *)

\* C25: in a parse the ENDMARKER is the last token the parser asks the
\* tokenizer for: once it is buffered no further next() is made on the token
\* stream, so the stream is never found exhausted (no StopIteration); and the
\* cursor passes the ENDMARKER only as the last step of start, that is only
\* when parse_file returns.
C25_EndmarkerLast ==
    Ran =>
        LET tokens == parser.tokens
        IN  /\ \A i \in 1..Len(tokens) :
                  tokens[i].type = "ENDMARKER" =>
                     /\ i = Len(tokens)
                     /\ parser.tk.n = i
                     /\ parser.pos = i => Returned
            /\ outcome.kind = "raise" => outcome.exc # StopIteration
            /\ Returned =>
                  /\ tokens # <<>>
                  /\ Last(tokens).type = "ENDMARKER"
                  /\ parser.pos = Len(tokens)

\* Two command lines were parsed and the ENDMARKER was consumed.
C25_Witness ==
    /\ Returned
    /\ Len(outcome.value) = 2
    /\ Last(parser.tokens).type = "ENDMARKER"
    /\ parser.pos = Len(parser.tokens)
    /\ parser.tk.n = Len(parser.tokens)

----------------------------------------------------------------------------
(* C22 *)

\* The parser with @memoize taken off its productions and off expect_token
\* (@memoize_left_rec stays), run on the same input.
Unmemoized == parse_file([NewParser EXCEPT !.replay = FALSE], fobj)

\* C22: the parser without @memoize returns the same Script or raises the
\* same error as the parser with it, no command being added twice; both
\* leave the cursor and the token buffer the same, and every call of a
\* production or of expect_token (a method, its argument and the position
\* it is called at) gives the same result and ends at the same position in
\* both.
C22_MemoizationIsPure ==
    Ran =>
        LET direct == Unmemoized
        IN  /\ Returned <=> direct.ok
            /\ Returned => outcome.value = direct.v
            /\ outcome.kind = "raise" => outcome.exc = direct.p.exc
            /\ parser.optocad_script = direct.p.optocad_script
            /\ parser.pos = direct.p.pos
            /\ parser.tokens = direct.p.tokens
            /\ parser.memos = direct.p.memos

\* A script of two commands, the second with a "+" line, whose parse looked
\* up results it had stored: the positional value of each command is parsed
\* for the first alternative of command_params and asked for again by the
\* second.
C22_Witness ==
    /\ Returned
    /\ Len(outcome.value) = 2
    /\ Len(outcome.value[2].secondary_surfaces) = 1
    /\ \E key \in DOMAIN parser.memos :
          key[1] = "command_value_list" /\ parser.memos[key].ok

----------------------------------------------------------------------------
(* C23 *)

\* The tokens the lexer has yielded in its first n next() calls, in order.
Yielded(tk) ==
    LET runs == SubSeq(tk.runs, 1, tk.n)
        yields == SelectSeq(runs, LAMBDA g : g.kind = "yield")
    IN  [i \in 1..Len(yields) |-> yields[i].token]

C23_State ==
    /\ 0 <= parser.pos
    /\ parser.pos <= Len(parser.tokens)
    /\ parser.tokens = Yielded(parser.tk)
    /\ parser.tk.n <= Len(parser.tk.runs)
    /\ Len(parser.tk.asked) = parser.tk.n
    /\ \A i \in 1..parser.tk.n :
          /\ parser.tk.asked[i] = i - 1
          /\ i < parser.tk.n => parser.tk.runs[i].kind = "yield"

C23_Step ==
    /\ Len(parser.tokens) <= Len(parser'.tokens)
    /\ SubSeq(parser'.tokens, 1, Len(parser.tokens)) = parser.tokens
    /\ parser.tk.n <= parser'.tk.n
    /\ parser'.tk.runs = parser.tk.runs
    /\ outcome'.call[1] \in {"peek_token", "get_token", "expect_token", "maybe_token",
                              "positive_lookahead", "negative_lookahead"} =>
          parser'.tk.n = IF parser.pos = Len(parser.tokens)
                             /\ parser.tk.n < Len(parser.tk.runs)
                         THEN parser.tk.n + 1 ELSE parser.tk.n

\* C23: in every state between calls 0 <= pos <= len(tokens); the buffer is
\* the tokens the lexer has yielded so far, in its order, each once; the i-th
\* next() on the lexer was made with the cursor at i - 1, the length of the
\* buffer then; a call only appends to the buffer; and a primitive that reads
\* one token makes one next() call where pos = len(tokens) and none elsewhere.
C23_BufferAppendOnly == []C23_State /\ [][C23_Step]_vars

\* The cursor put back to the start behind two buffered tokens.
C23_Witness ==
    /\ calls = 2
    /\ outcome.call[1] = "reset"
    /\ parser.pos = 0
    /\ Len(parser.tokens) = 2
    /\ parser.tk.n = 2

----------------------------------------------------------------------------
(* C21 *)

C21_Step ==
    LET call == outcome'.call
        entry == parser.pos
        returned == outcome'.kind = "return"
    IN  /\ (returned /\ ~outcome'.ok) => parser'.pos = entry
        /\ call[1] \in {"peek_token", "positive_lookahead", "negative_lookahead"} =>
              parser'.pos = entry
        /\ (returned /\ call[1] = "expect_token") =>
              LET token == parser'.tokens[entry + 1]
              IN  IF token.type = call[2][1]
                  THEN outcome'.ok /\ outcome'.value = token /\ parser'.pos = entry + 1
                  ELSE ~outcome'.ok /\ parser'.pos = entry
        /\ (returned /\ call[1] \in {"maybe_token", "maybe_trailing_comma"}
                /\ outcome'.value = EMPTY) => parser'.pos = entry

----------------------------------------------------------------------------
(* C11 *)

\* The highest cursor position a successful consume has reached: every
\* consume of the grammar is an expect_token, whose calls memos records.
HighestConsumed(p) ==
    LET ends == {p.memos[key].endpos :
                    key \in {k \in DOMAIN p.memos : k[1] = "expect_token" /\ p.memos[k].ok}}
    IN  IF ends = {} THEN 0 ELSE CHOOSE e \in ends : \A f \in ends : f <= e

\* C11: the generic "syntax error" is located at the last token consumed, or
\* at the first token where none was consumed, and never at a token that was
\* only peeked.
C11_LastConsumed ==
    (Ran /\ outcome.kind = "raise" /\ outcome.exc.exc = "OptocadSyntaxError"
         /\ outcome.exc.msg = "syntax error") =>
        LET h == HighestConsumed(parser)
            token == IF h > 0 THEN parser.tokens[h] ELSE parser.tokens[1]
        IN  outcome.exc = raise_error("syntax error", token)

----------------------------------------------------------------------------
(* C12 *)

\* The same call on a parser that has made no parse.
OnFreshParser ==
    IF fobj.named THEN parse_file(NewParser, fobj) ELSE parse(NewParser, fobj.text)

\* C12: a parse on a parser that has made other parses, returned or raised,
\* ends as the same parse on a fresh parser: the same Script or the same
\* error, and the same tokens, cursor, memos and collected script left in
\* the parser.
C12_HistoryIndependent ==
    calls > 0 =>
        LET fresh == OnFreshParser
        IN  /\ Returned <=> fresh.ok
            /\ Returned => outcome.value = fresh.v
            /\ outcome.kind = "raise" => outcome.exc = fresh.p.exc
            /\ parser.tokens = fresh.p.tokens
            /\ parser.pos = fresh.p.pos
            /\ parser.memos = fresh.p.memos
            /\ parser.optocad_script = fresh.p.optocad_script

\* A command with a secondary surface returned by a parser whose parse
\* before it had raised.
C12_Witness ==
    /\ calls = 2
    /\ outcome.before = "raise"
    /\ Returned
    /\ Len(outcome.value) = 1
    /\ Len(outcome.value[1].secondary_surfaces) = 1

----------------------------------------------------------------------------
(* C13 *)

\* C13: parse_file returns a Script or raises a located syntax error (an
\* OptocadSyntaxError), and ends in no other way.
C13_ScriptOrSyntaxError ==
    Ran => \/ Returned
           \/ outcome.kind = "raise" /\ outcome.exc.exc = "OptocadSyntaxError"

----------------------------------------------------------------------------
(* C14 *)

\* C14: parse_file ends, and the seed growing of a left-recursive production
\* at a position makes no more attempts than one for each attempt that ended
\* further on than the best before it, and the one that did not: at most the
\* number of tokens from the position to the end of its stored result, and
\* one.
C14_SeedGrowingStops ==
    Ran =>
        /\ DOMAIN parser.attempts =
               {key \in DOMAIN parser.memos : key[1] \in LeftRecursive}
        /\ \A key \in DOMAIN parser.attempts :
              /\ parser.memos[key].endpos <= Len(parser.tokens)
              /\ parser.attempts[key] <= parser.memos[key].endpos - key[3] + 1

\* An expression grown twice from its seed: `1 + 2 * 3`, three attempts at
\* expr1 from the first number.
C14_Witness ==
    /\ Returned
    /\ \E key \in DOMAIN parser.attempts :
          /\ key[1] = "expr"
          /\ parser.attempts[key] = 3
          /\ parser.memos[key].endpos = key[3] + 5

----------------------------------------------------------------------------
(* C15 *)

\* The text is one line `m1 <word>` whose word is letters only.
IsNameValue(text) ==
    /\ Len(text) >= 5
    /\ SubSeq(text, 1, 3) = <<"m", "1", " ">>
    /\ Last(text) = "\n"
    /\ \A i \in 4..Len(text) - 1 : text[i] \in Letters \ {"_"}

\* C15: a command whose one positional value is a name parses, with the
\* name as its value, whether the name is made of the action letters (an
\* action) or not (a NAME operand of expr4).
C15_NameValue ==
    (Ran /\ IsNameValue(fobj.text)) =>
        /\ Returned
        /\ Len(outcome.value) = 1
        /\ outcome.value[1].args = <<PyStr(SubSeq(fobj.text, 4, Len(fobj.text) - 1))>>

----------------------------------------------------------------------------
(* C16 *)

\* How tightly a binary operator binds.
Precedence(op) ==
    CASE op \in {<<"+">>, <<"-">>} -> 1
      [] op \in {<<"*">>, <<"/">>, <<"/", "/">>} -> 2
      [] op = <<"*", "*">> -> 4

Operand(digit) == PyStr(<<digit>>)

Binary(op, lhs, rhs) == OptocadBinaryExpression(PyStr(op), lhs, rhs)

Negated(argument) == OptocadUnaryExpression(PyStr(<<"-">>), argument)

\* `1 a 2 b 3`: b takes the 2 where it binds tighter than a, or where both
\* are "**"; otherwise a does.
TwoOperators(a, b) ==
    IF Precedence(b) > Precedence(a) \/ (a = <<"*", "*">> /\ b = <<"*", "*">>)
    THEN Binary(a, Operand("1"), Binary(b, Operand("2"), Operand("3")))
    ELSE Binary(b, Binary(a, Operand("1"), Operand("2")), Operand("3"))

\* The expressions of Exprs, each with the tree that precedence and
\* associativity give it.
ExprTrees ==
    {[text |-> <<"1">> \o a \o <<"2">> \o b \o <<"3">>, tree |-> TwoOperators(a, b)] :
        a, b \in Operators}
    \cup {[text |-> <<"(", "1">> \o a \o <<"2", ")">> \o b \o <<"3">>,
           tree |-> Binary(b, Binary(a, Operand("1"), Operand("2")), Operand("3"))] :
            a, b \in Operators}
    \cup {[text |-> <<"1">> \o a \o <<"(", "2">> \o b \o <<"3", ")">>,
           tree |-> Binary(a, Operand("1"), Binary(b, Operand("2"), Operand("3")))] :
            a, b \in Operators}
    \cup {[text |-> <<"-", "1">> \o a \o <<"2">>,
           tree |-> IF a = <<"*", "*">>
                    THEN Negated(Binary(a, Operand("1"), Operand("2")))
                    ELSE Binary(a, Negated(Operand("1")), Operand("2"))] :
            a \in Operators}
    \cup {[text |-> <<"1">> \o a \o <<"-", "2">>,
           tree |-> Binary(a, Operand("1"), Negated(Operand("2")))] : a \in Operators}

\* C16: the one value of `m1 <expression>` is the tree that precedence and
\* associativity give the expression: "+" and "-" loosest and to the left,
\* "*", "/" and "//" tighter and to the left, a sign tighter still, "**"
\* tightest and to the right, its right operand taking a sign; and `3**2` in
\* a list of values is one value, the power of 3 and 2.
C16_Precedence ==
    Ran =>
        /\ \A e \in ExprTrees :
              fobj.text = <<"m", "1", " ">> \o e.text \o <<"\n">> =>
                 /\ Returned
                 /\ Len(outcome.value) = 1
                 /\ outcome.value[1].args = <<e.tree>>
        /\ fobj.text = ListedPower =>
              /\ Returned
              /\ Len(outcome.value) = 1
              /\ outcome.value[1].args =
                    <<Operand("1"), Binary(<<"*", "*">>, Operand("3"), Operand("2"))>>

\* `1-2-3` parsed as (1-2)-3.
C16_Witness ==
    /\ Returned
    /\ fobj.text = <<"m", "1", " ", "1", "-", "2", "-", "3", "\n">>
    /\ outcome.value[1].args =
          <<Binary(<<"-">>, Binary(<<"-">>, Operand("1"), Operand("2")), Operand("3"))>>

----------------------------------------------------------------------------
(* C17 *)

\* The i-th buffered token is there and is of one of the types.
IsAt(tokens, i, types) == i <= Len(tokens) /\ tokens[i].type \in types

EndsLine == {"NEWLINE", "COMMENT"}

C17_Step ==
    LET call == outcome'.call
        entry == parser.pos
        tokens == parser'.tokens
        returned == outcome'.kind = "return"
        params == <<"command_params", <<>>, entry + 1>>
    IN  /\ (returned /\ call[1] = "maybe_trailing_comma") =>
              IF IsAt(tokens, entry + 1, {"COMMA"}) /\ IsAt(tokens, entry + 2, EndsLine)
              THEN outcome'.value = tokens[entry + 1] /\ parser'.pos = entry + 1
              ELSE outcome'.value = EMPTY /\ parser'.pos = entry
        /\ (returned /\ outcome'.ok /\ call[1] = "command_params"
                /\ IsAt(tokens, parser'.pos, {"COMMA"})) =>
              IsAt(tokens, parser'.pos + 1, EndsLine)
        /\ (returned /\ call[1] = "script_line" /\ params \in DOMAIN parser'.memos
                /\ parser'.memos[params].ok
                /\ IsAt(tokens, parser'.memos[params].endpos + 1, {"COMMA"})) =>
              ~outcome'.ok

----------------------------------------------------------------------------
(* C18 *)

\* A parameter without "=" stands after one with "=".
PositionalAfterKeyword(line) ==
    LET items == ParamItems(line)
    IN  \E i, j \in 1..Len(items) :
           i < j /\ IsKeyword(items[i]) /\ items[j] # <<>> /\ IsPositional(items[j])

\* C18: parse_file returns no Script for a text with a command line on which
\* a positional value follows a keyword argument, and raises the syntax
\* error "syntax error" for `m1 x=1, 2`.
C18_PositionalFirst ==
    LET lines == CommandLines(fobj.text)
    IN  /\ (Ran /\ \E i \in 1..Len(lines) : PositionalAfterKeyword(lines[i])) => ~Returned
        /\ (Ran /\ fobj.text = <<"m", "1", " ", "x", "=", "1", ",", " ", "2", "\n">>) =>
              /\ outcome.kind = "raise"
              /\ outcome.exc.exc = "OptocadSyntaxError"
              /\ outcome.exc.msg = "syntax error"

\* `m1 x=1, 2` refused.
C18_Witness ==
    /\ Ran
    /\ fobj.text = <<"m", "1", " ", "x", "=", "1", ",", " ", "2", "\n">>
    /\ outcome.kind = "raise"
    /\ outcome.exc.msg = "syntax error"

----------------------------------------------------------------------------
(* C19 *)

\* C19: the kwargs of the Command of a primary line of plain parameters has
\* each key of the line once, in the order in which the keys first stand on
\* the line, each with the value of its last `key=value` on the line.
C19_LastValueFirstPlace ==
    Returned =>
        LET primary == SelectSeq(SplitLines(fobj.text), IsPrimaryLine)
            script == outcome.value
        IN  \A i \in 1..Len(script) :
               (i <= Len(primary) /\ IsPlainLine(primary[i])) =>
                  /\ script[i].kwargs = KwargsOf(primary[i], AsText)
                  /\ \A m, n \in 1..Len(script[i].kwargs) :
                        script[i].kwargs[m].k = script[i].kwargs[n].k => m = n

\* `m1 x=1,y=2,x=3,y=4`: x is 3 and y is 4, x first.
C19_Witness ==
    /\ Returned
    /\ fobj.text = <<"m", "1", " ", "x", "=", "1", ",", "y", "=", "2", ",",
                     "x", "=", "3", ",", "y", "=", "4", "\n">>
    /\ outcome.value[1].kwargs =
          <<[k |-> PyStr(<<"x">>), v |-> PyStr(<<"3">>)],
            [k |-> PyStr(<<"y">>), v |-> PyStr(<<"4">>)]>>

----------------------------------------------------------------------------
(* C20 *)

\* Action strings with the text each stands for.
ActionValues ==
    {[text |-> <<"{", "c", "}", "2">>, value |-> <<"{", "c", "}", "2">>],
     [text |-> <<"{", "c", "}">>, value |-> <<"{", "c", "}">>],
     [text |-> <<"[", "c", "]">>, value |-> <<"[", "c", "]">>],
     [text |-> <<"(", "c", ")">>, value |-> <<"(", "c", ")">>],
     [text |-> <<"c", " ", "d">>, value |-> <<"c", "d">>],
     [text |-> <<"c", "[", "d", "]">>, value |-> <<"c", "[", "d", "]">>],
     [text |-> <<"{", "c", "}", "{", "d", "}">>, value |-> <<"{", "c", "}", "{", "d", "}">>]}

\* C20: the value of `m1 <action>` is the text of the action: a group in
\* braces with its repeat count after it, or with nothing after it where no
\* count follows; a group in brackets or parentheses with them around it;
\* actions side by side joined in their order.
C20_ActionText ==
    Ran =>
        \A a \in ActionValues :
            fobj.text = <<"m", "1", " ">> \o a.text \o <<"\n">> =>
               /\ Returned
               /\ Len(outcome.value) = 1
               /\ outcome.value[1].args = <<PyStr(a.value)>>

====
